---------------------------- MODULE Spec2Model ----------------------------
(***************************************************************************)
(* State-machine model of the mesh live-map backend (src/backend): the     *)
(* ingest callback (services/mqtt.py), the event broadcaster               *)
(* (services/broadcaster.py), the reaper (services/reaper.py), the state   *)
(* loader (services/persistence.py), the topology resolver (decoder.py)    *)
(* and the history engine (history.py).                                    *)
(*                                                                         *)
(* Conventions                                                             *)
(*  - A device id is a sequence of one-character strings, NoId (the empty  *)
(*    sequence) stands for both None and "" (both falsy in Python).        *)
(*  - A text value (name, role, mode, hash) is a string, "" is None.       *)
(*  - A coordinate is an integer number of 1e-7 degrees, so that values    *)
(*    below the 1e-6 zero threshold and the six-decimal rounding of the    *)
(*    history engine are both representable.                               *)
(*  - time.time() reads the variable now.                                  *)
(***************************************************************************)
EXTENDS Integers, Sequences, FiniteSets, TLC

----------------------------------------------------------------------------
(* Bounds of the model *)

MaxTime == 3
MaxQueue == 3
MaxReceived == 3

----------------------------------------------------------------------------
(* Configuration record (config.py): the values the model runs with *)

MAP_START_LAT == 0
MAP_START_LON == 0
MAP_RADIUS == 497
TRAIL_LEN == 2
DEVICE_TTL_SECONDS == 1
ROUTE_TTL_SECONDS == 1
ROUTE_PATH_MAX_LEN == 2
ROUTE_HISTORY_WINDOW == 1
ROUTE_HISTORY_MAX_SEGMENTS == 3
HISTORY_EDGE_SAMPLE_LIMIT == 2
ROUTE_PAYLOAD_TYPES_SET == {2, 3}

ZeroEps == 10

----------------------------------------------------------------------------
(* Values *)

NoId == << >>
NoInt == -1

Abs(x) == IF x < 0 THEN -x ELSE x

Max(a, b) == IF a >= b THEN a ELSE b

HexChars == {"0", "1", "2", "3", "4", "5", "6", "7", "8", "9",
             "a", "b", "c", "d", "e", "f", "A", "B", "C", "D", "E", "F"}

Upper(c) ==
  CASE c = "a" -> "A" [] c = "b" -> "B" [] c = "c" -> "C"
    [] c = "d" -> "D" [] c = "e" -> "E" [] c = "f" -> "F"
    [] OTHER -> c

(* decoder._normalize_node_hash on a string value: pad one character with  *)
(* "0", accept exactly two hex digits, upper-case them.                    *)
NormalizeNodeHash(s) ==
  LET p == IF Len(s) = 1 THEN <<"0">> \o s ELSE s
  IN IF Len(p) = 2 /\ p[1] \in HexChars /\ p[2] \in HexChars
       THEN <<Upper(p[1]), Upper(p[2])>>
       ELSE NoId

(* decoder._node_hash_from_device_id: the first two characters *)
NodeHashFromDeviceId(id) ==
  IF id = NoId \/ Len(id) < 2 THEN NoId
  ELSE NormalizeNodeHash(SubSeq(id, 1, 2))

(* decoder._coords_are_zero *)
CoordsAreZero(lat, lon) == Abs(lat) < ZeroEps /\ Abs(lon) < ZeroEps

(* los._haversine_m, as the squared planar distance in coordinate units *)
HaversineSq(lat1, lon1, lat2, lon2) ==
  (lat2 - lat1) * (lat2 - lat1) + (lon2 - lon1) * (lon2 - lon1)

(* helpers.within_map_radius *)
WithinMapRadius(lat, lon) ==
  \/ MAP_RADIUS <= 0
  \/ HaversineSq(MAP_START_LAT, MAP_START_LON, lat, lon) <= MAP_RADIUS * MAP_RADIUS


----------------------------------------------------------------------------
(* Finite maps (Python dicts) *)

EmptyMap == [x \in {} |-> 0]

Put(f, k, v) == [x \in (DOMAIN f) \cup {k} |-> IF x = k THEN v ELSE f[x]]

Del(f, k) == [x \in (DOMAIN f) \ {k} |-> f[x]]

Get(f, k, default) == IF k \in DOMAIN f THEN f[k] ELSE default

----------------------------------------------------------------------------
(* History engine (history.py)                                             *)
(*                                                                         *)
(* A float handled by the history engine is a record [v, neg]: v is the    *)
(* value in coordinate units and neg its sign bit, which Python keeps when *)
(* a small negative value is rounded to -0.0 and which the "%.6f" format   *)
(* prints.                                                                 *)

ROUTE_HISTORY_ENABLED == TRUE
ROUTE_HISTORY_ALLOWED_MODES_SET == {"path", "fanout"}
ROUTE_HISTORY_PAYLOAD_TYPES_SET == {3}

ToFloat(x) == [v |-> x, neg |-> x < 0]

FloatPoint(p) == <<ToFloat(p[1]), ToFloat(p[2])>>

(* round(x, 6): to the nearest multiple of 1e-6 degrees (10 units) *)
Round6(f) ==
  LET m == ((Abs(f.v) + 5) \div 10) * 10
  IN [v |-> IF f.neg THEN -m ELSE m, neg |-> f.neg]

(* history._history_payload_allowed *)
HistoryPayloadAllowed(payload_type) ==
  IF ~ROUTE_HISTORY_ENABLED \/ ROUTE_HISTORY_WINDOW <= 0 THEN FALSE
  ELSE IF ROUTE_HISTORY_PAYLOAD_TYPES_SET = {} THEN TRUE
  ELSE IF payload_type = NoInt THEN FALSE
  ELSE payload_type \in ROUTE_HISTORY_PAYLOAD_TYPES_SET

NoPoint == << >>

(* history._normalize_history_point: None for a zero or out-of-radius      *)
(* point, else the point rounded to six decimals.                          *)
NormalizeHistoryPoint(p) ==
  IF p = NoPoint THEN NoPoint
  ELSE IF CoordsAreZero(p[1].v, p[2].v) THEN NoPoint
  ELSE IF ~WithinMapRadius(p[1].v, p[2].v) THEN NoPoint
  ELSE <<Round6(p[1]), Round6(p[2])>>

(* Python's tuple comparison a <= b on (lat, lon) *)
PointLE(a, b) == a[1].v < b[1].v \/ (a[1].v = b[1].v /\ a[2].v <= b[2].v)

(* f"{x:.6f}": the sign and the digits *)
Fmt6(f) == <<f.neg, Abs(f.v)>>

(* history._history_edge_key *)
HistoryEdgeKey(a, b) ==
  IF PointLE(a, b)
    THEN [key |-> <<Fmt6(a[1]), Fmt6(a[2]), Fmt6(b[1]), Fmt6(b[2])>>,
          first |-> a, second |-> b]
    ELSE [key |-> <<Fmt6(b[1]), Fmt6(b[2]), Fmt6(a[1]), Fmt6(a[2])>>,
          first |-> b, second |-> a]

(* history._history_sample_from_route *)
HistorySampleFromRoute(route, ts) ==
  [ts |-> ts, message_hash |-> route.message_hash,
   route_mode |-> route.route_mode]

(* recent.sort(key=ts, reverse=True): a stable sort, newest first *)
RECURSIVE SortRecent(_)
SortRecent(s) ==
  IF Len(s) <= 1 THEN s
  ELSE LET rest == SortRecent(SubSeq(s, 1, Len(s) - 1))
           x == s[Len(s)]
           k == Cardinality({i \in 1..Len(rest) : rest[i].ts >= x.ts})
       IN SubSeq(rest, 1, k) \o <<x>> \o SubSeq(rest, k + 1, Len(rest))

(* the sample appended and the list sorted, without the cut to the limit *)
UpdateHistoryEdgeRecentUncut(edge, sample) ==
  [edge EXCEPT !.recent = SortRecent(Append(edge.recent, sample))]

(* history._update_history_edge_recent *)
UpdateHistoryEdgeRecent(edge, sample) ==
  LET sorted == SortRecent(Append(edge.recent, sample))
  IN [edge EXCEPT !.recent =
        IF Len(sorted) > HISTORY_EDGE_SAMPLE_LIMIT
          THEN SubSeq(sorted, 1, HISTORY_EDGE_SAMPLE_LIMIT)
          ELSE sorted]

(* The edge bookkeeping shared by _record_route_history (l.152-164) and    *)
(* _load_route_history (l.314-326): create if absent, count, last_ts,      *)
(* recent.                                                                 *)
TouchHistoryEdge(edges, k, ts, sample) ==
  LET edge == IF k.key \in DOMAIN edges THEN edges[k.key]
              ELSE [a |-> k.first, b |-> k.second, count |-> 0,
                    last_ts |-> ts, recent |-> << >>]
      counted == [edge EXCEPT !.count = edge.count + 1,
                              !.last_ts = Max(edge.last_ts, ts)]
  IN Put(edges, k.key, UpdateHistoryEdgeRecent(counted, sample))

(* history._prune_route_history, the while loop: h is the record           *)
(* [segs, edges, compact, updated, removed].                               *)
RECURSIVE PruneLoop(_, _, _)
PruneLoop(h, force_limit, cutoff) ==
  IF h.segs = << >> THEN h
  ELSE
    LET entry == Head(h.segs)
    IN IF ~force_limit /\ entry.ts >= cutoff THEN h
       ELSE IF force_limit /\ ROUTE_HISTORY_MAX_SEGMENTS > 0
                /\ Len(h.segs) <= ROUTE_HISTORY_MAX_SEGMENTS THEN h
       ELSE
         LET popped == [h EXCEPT !.segs = Tail(h.segs)]
             a_point == NormalizeHistoryPoint(entry.a)
             b_point == NormalizeHistoryPoint(entry.b)
         IN IF a_point = NoPoint \/ b_point = NoPoint
              THEN PruneLoop([popped EXCEPT !.compact = TRUE], force_limit, cutoff)
            ELSE
              LET key == HistoryEdgeKey(a_point, b_point).key
              IN IF key \notin DOMAIN h.edges
                   THEN PruneLoop([popped EXCEPT !.compact = TRUE], force_limit, cutoff)
                 ELSE
                   LET edge == h.edges[key]
                       kept == SelectSeq(edge.recent, LAMBDA s : s.ts >= cutoff)
                       dec == [edge EXCEPT !.count = edge.count - 1,
                                           !.recent = kept]
                       next ==
                         IF dec.count <= 0
                           THEN [popped EXCEPT
                                   !.edges = Del(h.edges, key),
                                   !.removed = Append(h.removed, key),
                                   !.compact = TRUE]
                           ELSE [popped EXCEPT
                                   !.edges = Put(h.edges, key, dec),
                                   !.updated = h.updated \cup {key},
                                   !.compact = TRUE]
                   IN PruneLoop(next, force_limit, cutoff)

(* history._prune_route_history *)
PruneRouteHistory(h, force_limit, t) ==
  LET start == [h EXCEPT !.updated = {}, !.removed = << >>]
  IN IF ~ROUTE_HISTORY_ENABLED \/ h.segs = << >> THEN start
     ELSE PruneLoop(start, force_limit, t - ROUTE_HISTORY_WINDOW)

(* One journal record / deque entry (history.py l.138-150, l.300-312) *)
HistorySegment(ts, k, a_id, b_id, sample) ==
  [ts |-> ts, a |-> k.first, b |-> k.second, a_id |-> a_id, b_id |-> b_id,
   message_hash |-> sample.message_hash, route_mode |-> sample.route_mode]

(* history._record_route_history, the loop over consecutive points: acc is *)
(* the record [edges, new_entries, updated].                               *)
RECURSIVE RecordLoop(_, _, _, _, _, _)
RecordLoop(acc, points, point_ids, idx, ts, sample) ==
  IF idx > Len(points) - 1 THEN acc
  ELSE
    LET a == NormalizeHistoryPoint(FloatPoint(points[idx]))
        b == NormalizeHistoryPoint(FloatPoint(points[idx + 1]))
    IN IF a = NoPoint \/ b = NoPoint
         THEN RecordLoop(acc, points, point_ids, idx + 1, ts, sample)
       ELSE
         LET has_ids == point_ids # << >> /\ idx - 1 < Len(point_ids) - 1
             a_id == IF has_ids THEN point_ids[idx] ELSE NoId
             b_id == IF has_ids THEN point_ids[idx + 1] ELSE NoId
             k == HistoryEdgeKey(a, b)
             next == [edges |-> TouchHistoryEdge(acc.edges, k, ts, sample),
                      new_entries |-> Append(acc.new_entries,
                                             HistorySegment(ts, k, a_id, b_id, sample)),
                      updated |-> acc.updated \cup {k.key}]
         IN RecordLoop(next, points, point_ids, idx + 1, ts, sample)

(* l.174-177: the updates of the recording, then those of the forced prune *)
ExtendUpdates(updated, pruned) ==
  [pruned EXCEPT !.updated = updated \cup pruned.updated]

(* history._append_route_history_file: the entries are written to the end *)
(* of the journal, one line each                                          *)
AppendRouteHistoryFile(file, entries) ==
  IF ~ROUTE_HISTORY_ENABLED \/ entries = << >> THEN file
  ELSE file \o entries

(* the entries appended with no forced prune *)
RecordEntriesUnpruned(h, acc, t) ==
  IF acc.new_entries = << >> THEN [h EXCEPT !.updated = {}, !.removed = << >>]
  ELSE [segs |-> h.segs \o acc.new_entries, edges |-> acc.edges,
        compact |-> h.compact, updated |-> acc.updated, removed |-> << >>,
        file |-> AppendRouteHistoryFile(h.file, acc.new_entries)]

(* l.167-185: the new entries acc.new_entries join the deque; a deque over *)
(* the limit is pruned                                                     *)
RecordEntries(h, acc, t) ==
  LET extended == [segs |-> h.segs \o acc.new_entries,
                   edges |-> acc.edges,
                   compact |-> h.compact,
                   updated |-> acc.updated,
                   removed |-> << >>,
                   file |-> AppendRouteHistoryFile(h.file, acc.new_entries)]
  IN IF acc.new_entries = << >> THEN [h EXCEPT !.updated = {}, !.removed = << >>]
     ELSE IF ROUTE_HISTORY_MAX_SEGMENTS > 0
             /\ Len(extended.segs) > ROUTE_HISTORY_MAX_SEGMENTS
       THEN ExtendUpdates(acc.updated, PruneRouteHistory(extended, TRUE, t))
     ELSE extended

(* history._record_route_history: h is [segs, edges, compact, updated,     *)
(* removed]; the result carries the updates and removals to broadcast.     *)
RecordRouteHistory(h, route, t) ==
  LET none == [h EXCEPT !.updated = {}, !.removed = << >>]
      ts == IF route.ts # 0 THEN route.ts ELSE t
  IN IF ~ROUTE_HISTORY_ENABLED THEN none
     ELSE IF ROUTE_HISTORY_ALLOWED_MODES_SET # {}
        /\ (route.route_mode = "" \/ route.route_mode \notin ROUTE_HISTORY_ALLOWED_MODES_SET)
       THEN none
     ELSE IF ~HistoryPayloadAllowed(route.payload_type) THEN none
     ELSE IF Len(route.points) < 2 THEN none
     ELSE RecordEntries(h,
                        RecordLoop([edges |-> h.edges, new_entries |-> << >>,
                                    updated |-> {}],
                                   route.points, route.point_ids, 1, ts,
                                   HistorySampleFromRoute(route, ts)),
                        t)

(* history._load_route_history, the loop over the journal's lines: h is    *)
(* [segs, edges, compact, loaded_any].                                     *)
RECURSIVE LoadLoop(_, _, _)
LoadLoop(h, lines, cutoff) ==
  IF lines = << >> THEN h
  ELSE
    LET entry == Head(lines)
        skip == LoadLoop([h EXCEPT !.compact = TRUE], Tail(lines), cutoff)
    IN IF entry.ts < cutoff THEN skip
       ELSE
         LET a_point == NormalizeHistoryPoint(entry.a)
             b_point == NormalizeHistoryPoint(entry.b)
         IN IF a_point = NoPoint \/ b_point = NoPoint THEN skip
            ELSE
              LET sample == [ts |-> entry.ts, message_hash |-> entry.message_hash,
                             route_mode |-> entry.route_mode]
                  k == HistoryEdgeKey(a_point, b_point)
              IN LoadLoop(
                   [h EXCEPT
                      !.segs = Append(h.segs,
                                 HistorySegment(entry.ts, k, entry.a_id, entry.b_id, sample)),
                      !.edges = TouchHistoryEdge(h.edges, k, entry.ts, sample),
                      !.loaded_any = TRUE],
                   Tail(lines), cutoff)

(* l.332-339: after the lines were read *)
LoadedHistory(loaded, t) ==
  LET res == [segs |-> loaded.segs, edges |-> loaded.edges, compact |-> loaded.compact,
              updated |-> {}, removed |-> << >>, file |-> loaded.file]
  IN IF ~loaded.loaded_any THEN res
     ELSE IF ROUTE_HISTORY_MAX_SEGMENTS > 0 /\ Len(res.segs) > ROUTE_HISTORY_MAX_SEGMENTS
       THEN [PruneRouteHistory(res, TRUE, t) EXCEPT !.compact = TRUE]
     ELSE res

(* history._load_route_history *)
LoadRouteHistory(h, lines, t) ==
  IF ~ROUTE_HISTORY_ENABLED THEN [h EXCEPT !.updated = {}, !.removed = << >>]
  ELSE LoadedHistory(LoadLoop([segs |-> h.segs, edges |-> h.edges,
                               compact |-> h.compact, loaded_any |-> FALSE,
                               file |-> lines],
                              lines, t - ROUTE_HISTORY_WINDOW),
                     t)

----------------------------------------------------------------------------
(* Topology resolver (decoder.py) *)

RECURSIVE SetToSeq(_)
SetToSeq(S) ==
  IF S = {} THEN << >>
  ELSE LET x == CHOOSE y \in S : TRUE IN <<x>> \o SetToSeq(S \ {x})

Reverse(s) == [i \in 1..Len(s) |-> s[Len(s) + 1 - i]]

InSeq(x, s) == \E i \in 1..Len(s) : s[i] = x

(* a rebuild that maps a collided prefix to one of its candidates *)
RebuildNodeHashMapAnyCandidate(devs) ==
  LET hashed == {id \in DOMAIN devs : NodeHashFromDeviceId(id) # NoId}
      hashes == {NodeHashFromDeviceId(id) : id \in hashed}
      cands == [h \in hashes |-> {id \in hashed : NodeHashFromDeviceId(id) = h}]
  IN [candidates |-> cands,
      to_device |-> [h \in hashes |-> CHOOSE id \in cands[h] : TRUE]]

(* decoder._rebuild_node_hash_map: the candidates of every prefix and the  *)
(* prefixes with exactly one candidate.                                    *)
RebuildNodeHashMap(devs) ==
  LET hashed == {id \in DOMAIN devs : NodeHashFromDeviceId(id) # NoId}
      hashes == {NodeHashFromDeviceId(id) : id \in hashed}
      cands == [h \in hashes |-> {id \in hashed : NodeHashFromDeviceId(id) = h}]
      single == {h \in hashes : Cardinality(cands[h]) = 1}
  IN [candidates |-> cands,
      to_device |-> [h \in single |-> CHOOSE id \in cands[h] : TRUE]]

(* the normalisation loop of _route_points_from_hashes (l.303-307) *)
RECURSIVE NormalizeHashes(_)
NormalizeHashes(path_hashes) ==
  IF path_hashes = << >> THEN << >>
  ELSE LET key == NormalizeNodeHash(Head(path_hashes))
       IN (IF key # NoId THEN <<key>> ELSE << >>) \o NormalizeHashes(Tail(path_hashes))

(* the orientation rule of _route_points_from_hashes (l.311-319) *)
OrientHashes(normalized, origin_id, receiver_id) ==
  LET receiver_hash == IF receiver_id # NoId THEN NodeHashFromDeviceId(receiver_id) ELSE NoId
      origin_hash == IF origin_id # NoId THEN NodeHashFromDeviceId(origin_id) ELSE NoId
      n == Len(normalized)
  IN IF receiver_hash # NoId /\ InSeq(receiver_hash, normalized)
       THEN IF normalized[1] = receiver_hash /\ normalized[n] # receiver_hash
              THEN Reverse(normalized) ELSE normalized
     ELSE IF origin_hash # NoId /\ InSeq(origin_hash, normalized)
       THEN IF normalized[n] = origin_hash /\ normalized[1] # origin_hash
              THEN Reverse(normalized) ELSE normalized
     ELSE normalized

(* the hop loop of _route_points_from_hashes (l.325-339): acc is           *)
(* [points, used_hashes, point_ids].                                       *)
RECURSIVE HopLoop(_, _, _, _)
HopLoop(acc, keys, devs, h2d) ==
  IF keys = << >> THEN acc
  ELSE
    LET key == Head(keys)
        device_id == Get(h2d, key, NoId)
        skip == HopLoop(acc, Tail(keys), devs, h2d)
    IN IF device_id = NoId THEN skip
       ELSE IF device_id \notin DOMAIN devs THEN skip
       ELSE IF CoordsAreZero(devs[device_id].lat, devs[device_id].lon) THEN skip
       ELSE
         LET point == <<devs[device_id].lat, devs[device_id].lon>>
         IN IF acc.points # << >> /\ point = acc.points[Len(acc.points)] THEN skip
            ELSE HopLoop([points |-> Append(acc.points, point),
                          used_hashes |-> Append(acc.used_hashes, key),
                          point_ids |-> Append(acc.point_ids, device_id)],
                         Tail(keys), devs, h2d)

(* the origin put behind the hops instead of in front of them *)
WithOriginLast(acc, devs, origin_id) ==
  IF origin_id # NoId /\ origin_id \in DOMAIN devs
     /\ ~CoordsAreZero(devs[origin_id].lat, devs[origin_id].lon)
    THEN [acc EXCEPT
            !.points = Append(acc.points, <<devs[origin_id].lat, devs[origin_id].lon>>),
            !.point_ids = Append(acc.point_ids, origin_id)]
    ELSE acc

(* l.341-350: the origin is put in front *)
WithOrigin(acc, devs, origin_id) ==
  IF origin_id # NoId /\ origin_id \in DOMAIN devs
     /\ ~CoordsAreZero(devs[origin_id].lat, devs[origin_id].lon)
    THEN LET origin_point == <<devs[origin_id].lat, devs[origin_id].lon>>
         IN IF acc.points = << >> \/ acc.points[1] # origin_point
              THEN [acc EXCEPT !.points = <<origin_point>> \o acc.points,
                               !.point_ids = <<origin_id>> \o acc.point_ids]
            ELSE IF acc.point_ids # << >>
              THEN [acc EXCEPT !.point_ids[1] = origin_id]
            ELSE acc
    ELSE acc

(* the receiver put at the end without the zero-coordinate check *)
WithReceiverUnchecked(acc, devs, receiver_id) ==
  IF receiver_id # NoId /\ receiver_id \in DOMAIN devs
    THEN LET receiver_point == <<devs[receiver_id].lat, devs[receiver_id].lon>>
         IN IF acc.points # << >> /\ receiver_point # acc.points[Len(acc.points)]
              THEN [acc EXCEPT !.points = Append(acc.points, receiver_point),
                               !.point_ids = Append(acc.point_ids, receiver_id)]
            ELSE IF acc.point_ids # << >>
              THEN [acc EXCEPT !.point_ids[Len(acc.point_ids)] = receiver_id]
            ELSE acc
    ELSE acc

(* l.352-361: the receiver is put at the end *)
WithReceiver(acc, devs, receiver_id) ==
  IF receiver_id # NoId /\ receiver_id \in DOMAIN devs
     /\ ~CoordsAreZero(devs[receiver_id].lat, devs[receiver_id].lon)
    THEN LET receiver_point == <<devs[receiver_id].lat, devs[receiver_id].lon>>
         IN IF acc.points # << >> /\ receiver_point # acc.points[Len(acc.points)]
              THEN [acc EXCEPT !.points = Append(acc.points, receiver_point),
                               !.point_ids = Append(acc.point_ids, receiver_id)]
            ELSE IF acc.point_ids # << >>
              THEN [acc EXCEPT !.point_ids[Len(acc.point_ids)] = receiver_id]
            ELSE acc
    ELSE acc

(* decoder._route_points_from_hashes.  raised is TRUE where the function   *)
(* returns the two-element tuple (None, []) of l.309, which the caller's   *)
(* three-name unpacking turns into a ValueError.                           *)
RoutePointsReturned(ends) ==
  [raised |-> FALSE,
   points |-> IF Len(ends.points) < 2 THEN << >> ELSE ends.points,
   used_hashes |-> ends.used_hashes,
   point_ids |-> ends.point_ids]

RoutePointsFromNormalized(devs, h2d, normalized, origin_id, receiver_id) ==
  IF ROUTE_PATH_MAX_LEN > 0 /\ Len(normalized) > ROUTE_PATH_MAX_LEN
    THEN [raised |-> TRUE, points |-> << >>, used_hashes |-> << >>,
          point_ids |-> << >>]
  ELSE RoutePointsReturned(
         WithReceiver(
           WithOrigin(
             HopLoop([points |-> << >>, used_hashes |-> << >>, point_ids |-> << >>],
                     OrientHashes(normalized, origin_id, receiver_id), devs, h2d),
             devs, origin_id),
           devs, receiver_id))

RoutePointsFromHashes(devs, h2d, path_hashes, origin_id, receiver_id) ==
  RoutePointsFromNormalized(devs, h2d, NormalizeHashes(path_hashes), origin_id,
                            receiver_id)

(* decoder._route_points_from_device_ids: << >> is None *)
RoutePointsFromDeviceIds(devs, origin_id, receiver_id) ==
  IF origin_id = NoId \/ receiver_id = NoId \/ origin_id = receiver_id THEN << >>
  ELSE IF origin_id \notin DOMAIN devs \/ receiver_id \notin DOMAIN devs THEN << >>
  ELSE IF CoordsAreZero(devs[origin_id].lat, devs[origin_id].lon)
          \/ CoordsAreZero(devs[receiver_id].lat, devs[receiver_id].lon) THEN << >>
  ELSE LET points == << <<devs[origin_id].lat, devs[origin_id].lon>>,
                        <<devs[receiver_id].lat, devs[receiver_id].lon>> >>
       IN IF points[1] = points[2] THEN << >> ELSE points

----------------------------------------------------------------------------
(* Decoder adaptor (decoder.py) *)

DIRECT_COORDS_MODE == "strict"
DIRECT_COORDS_ALLOW_ZERO == FALSE
MQTT_ONLINE_TOPIC_SUFFIXES == {"status"}
MQTT_SEEN_BROADCAST_MIN_SECONDS == 1
HEAT_TTL_SECONDS == 1
MESSAGE_ORIGIN_TTL_SECONDS == 2

(* A broker message, as far as the backend looks at it.                    *)
(*   topic_dev      _device_id_from_topic(topic), NoId for a foreign topic *)
(*   topic_last     the last topic segment                                 *)
(*   topic_suffix   "packets", "status" or "other"                         *)
(*   topic_matches  the direct-coordinate regex matches the topic          *)
(*   json           the payload is a JSON object                           *)
(*   obj_*          what the JSON object carries ("" / NoId / 0: absent)   *)
(*   blob           a packet blob was found (or the payload is hex)        *)
(*   dec_*          what the external decoder prints for the blob          *)
BaseMsg ==
  [topic_dev |-> NoId, topic_last |-> NoId, topic_suffix |-> "other",
   topic_matches |-> FALSE, json |-> TRUE, has_hint |-> FALSE,
   obj_has_latlon |-> FALSE, obj_lat |-> 0, obj_lon |-> 0, obj_ts |-> 0,
   obj_device_id |-> NoId, obj_origin_id |-> NoId, obj_name |-> "",
   obj_role |-> "", obj_direction |-> "", obj_hash |-> "",
   blob |-> FALSE, dec_ok |-> FALSE, dec_has_loc |-> FALSE,
   dec_lat |-> 0, dec_lon |-> 0, dec_pubkey |-> NoId, dec_name |-> "",
   dec_role |-> "", dec_pathHashes |-> << >>, dec_payloadType |-> NoInt,
   dec_routeType |-> NoInt, dec_messageHash |-> "", dec_path_is_list |-> FALSE,
   dec_path |-> << >>]

(* decoder._topic_marks_online *)
TopicMarksOnline(m) == m.topic_suffix \in MQTT_ONLINE_TOPIC_SUFFIXES

(* decoder._direct_coords_allowed *)
DirectCoordsAllowed(m) ==
  IF DIRECT_COORDS_MODE = "off" THEN FALSE
  ELSE IF DIRECT_COORDS_MODE = "any" THEN TRUE
  ELSE IF DIRECT_COORDS_MODE \in {"topic", "strict"}
    THEN IF m.topic_matches THEN TRUE
         ELSE IF DIRECT_COORDS_MODE = "topic" THEN FALSE
         ELSE m.json /\ m.has_hint
  ELSE TRUE

(* decoder._extract_device_id *)
ExtractDeviceId(m, decoded_pubkey) ==
  IF decoded_pubkey # NoId THEN decoded_pubkey
  ELSE IF m.json /\ m.obj_device_id # NoId THEN m.obj_device_id
  ELSE IF m.json /\ m.obj_origin_id # NoId THEN m.obj_origin_id
  ELSE IF m.topic_dev # NoId THEN m.topic_dev
  ELSE m.topic_last

NoParsed == [device_id |-> NoId, lat |-> 0, lon |-> 0, ts |-> 0, name |-> "", role |-> ""]

(* decoder._try_parse_payload at time t: the parsed position (has_parsed)  *)
(* and the debug record.  The text-only payload forms give the same record *)
(* as the JSON forms without the obj_* fields.                             *)
TryParsePayload(m, t) ==
  LET debug0 ==
        [has_parsed |-> FALSE, parsed |-> NoParsed, result |-> "no_coords",
         origin_id |-> IF m.json THEN m.obj_origin_id ELSE NoId,
         device_name |-> IF m.json THEN m.obj_name ELSE "",
         device_role |-> IF m.json THEN m.obj_role ELSE "",
         direction |-> IF m.json THEN m.obj_direction ELSE "",
         packet_hash |-> IF m.json THEN m.obj_hash ELSE "",
         decoded_pubkey |-> NoId, has_meta |-> FALSE, meta_ok |-> FALSE]
      (* _decode_meshcore_hex and _apply_meta_role *)
      pubkey == IF m.dec_ok THEN m.dec_pubkey ELSE NoId
      meta_role == IF debug0.device_role # "" THEN debug0.device_role
                   ELSE IF m.dec_ok THEN m.dec_role ELSE ""
      debug1 == [debug0 EXCEPT !.decoded_pubkey = pubkey, !.has_meta = TRUE,
                               !.meta_ok = m.dec_ok, !.device_role = meta_role]
  IN IF m.json /\ m.obj_has_latlon
       THEN IF ~DirectCoordsAllowed(m)
              THEN [debug0 EXCEPT !.result = "direct_blocked"]
            ELSE IF ~DIRECT_COORDS_ALLOW_ZERO /\ CoordsAreZero(m.obj_lat, m.obj_lon)
              THEN [debug0 EXCEPT !.result = "direct_zero_coords"]
            ELSE [debug0 EXCEPT
                    !.result = "direct_json", !.has_parsed = TRUE,
                    !.parsed = [device_id |-> ExtractDeviceId(m, NoId),
                                lat |-> m.obj_lat, lon |-> m.obj_lon,
                                ts |-> IF m.obj_ts # 0 THEN m.obj_ts ELSE t,
                                name |-> "", role |-> debug0.device_role]]
     ELSE IF m.blob
       THEN IF m.dec_ok /\ m.dec_has_loc
              THEN [debug1 EXCEPT
                      !.result = "decoded", !.has_parsed = TRUE,
                      !.parsed = [device_id |-> ExtractDeviceId(m, pubkey),
                                  lat |-> m.dec_lat, lon |-> m.dec_lon, ts |-> t,
                                  name |-> m.dec_name, role |-> meta_role]]
            ELSE [debug1 EXCEPT !.result = IF m.dec_ok THEN "decoded_no_location"
                                           ELSE "decode_failed"]
     ELSE IF m.json THEN [debug0 EXCEPT !.result = "json_no_packet_blob"]
     ELSE debug0

----------------------------------------------------------------------------
(* Program state (state.py, routes/websocket.py, services/broadcaster.py)  *)

VARIABLES
  started,                 \* the startup hook of app_refactored.py has run
  now,                     \* the wall clock read by time.time()
  devices,                 \* state.devices: id -> [lat, lon, ts, name, role]
  trails,                  \* state.trails: id -> sequence of <<lat, lon, ts>>
  seen_devices,            \* state.seen_devices: id -> ts
  mqtt_seen,               \* state.mqtt_seen: id -> ts
  last_seen_broadcast,     \* state.last_seen_broadcast: id -> ts
  device_names,            \* state.device_names: id -> name
  device_roles,            \* state.device_roles: id -> role
  device_role_sources,     \* state.device_role_sources: id -> source
  node_hash_to_device,     \* state.node_hash_to_device: prefix -> id
  node_hash_candidates,    \* state.node_hash_candidates: prefix -> ids
  state_dirty,             \* state.state_dirty
  routes,                  \* state.routes: route id -> route
  heat_events,             \* state.heat_events
  message_origins,         \* state.message_origins: hash -> cache entry
  route_history_segments,  \* state.route_history_segments (deque)
  route_history_edges,     \* state.route_history_edges: key -> edge
  route_history_compact,   \* state.route_history_compact
  update_queue,            \* services.broadcaster.update_queue
  clients,                 \* routes.websocket.clients
  b_pc,                    \* broadcaster: "get", "send" or "crashed"
  b_event,                 \* broadcaster: the local event
  b_loop,                  \* broadcaster: the send loop it is suspended in
  b_more,                  \* broadcaster: frame groups of the loops to come
  r_pc,                    \* reaper: "sleep" or the phase it is sending in
  r_now,                   \* reaper: the local now
  r_pending,               \* reaper: the ids it deletes after the loop
  r_loop,                  \* reaper: the send loop it is suspended in
  received_total,          \* state.stats["received_total"]
  role_hints,              \* history variable: id -> the role of the last
                           \* ingested message with a role hint for the id
  done_loop,               \* history variable: the send loop that ended last,
                           \* as it was when its dead clients were discarded
  state_file,              \* the file STATE_FILE on disk
  tmp_file,                \* the file STATE_FILE.tmp on disk
  s_pc,                    \* state_saver: where the task is
  history_file,            \* the lines of ROUTE_HISTORY_FILE on disk, as
                           \* the startup found them and as they were
                           \* written since
  route_history_last_compact, \* state.route_history_last_compact
  compact_result           \* history variable: how the last round of
                           \* _route_history_saver ended

vars == <<started, now, devices, trails, seen_devices, mqtt_seen,
          last_seen_broadcast, device_names, device_roles,
          device_role_sources, node_hash_to_device, node_hash_candidates,
          state_dirty, routes, heat_events, message_origins,
          route_history_segments, route_history_edges, route_history_compact,
          update_queue, clients, b_pc, b_event, b_loop, b_more,
          r_pc, r_now, r_pending, r_loop, received_total, role_hints,
          done_loop, state_file, tmp_file, s_pc, history_file,
          route_history_last_compact, compact_result>>

(* A send loop: "for ws in list(clients): try: await ws.send_text(...)     *)
(* except Exception: dead.append(ws)".  group holds the frames sent to     *)
(* each client inside one try block, snap is list(clients), todo the       *)
(* clients not yet finished (its head is the one being sent to), idx the   *)
(* frame of the group the head is being sent, dead the local list dead,    *)
(* ok the clients whose sends all returned.                                *)
NoLoop == [group |-> << >>, snap |-> << >>, todo |-> << >>, idx |-> 0,
           dead |-> << >>, ok |-> {}]

NoEvent == [type |-> "none"]

Range(s) == {s[i] : i \in 1..Len(s)}

(* The state file: exists is FALSE where there is none *)
NoStateFile ==
  [exists |-> FALSE, devices |-> EmptyMap, trails |-> EmptyMap,
   seen_devices |-> EmptyMap, device_names |-> EmptyMap,
   device_roles |-> EmptyMap, device_role_sources |-> EmptyMap]

(* A file on disk: its content as load_state reads it, and whether the   *)
(* JSON document was written to its end.  NoDisk: there is no file.        *)
OnDisk(content, complete) == [content |-> content, complete |-> complete]

NoDisk == OnDisk(NoStateFile, TRUE)

(* The state the tasks of the event loop work on, as one record *)
Cur ==
  [devices |-> devices, trails |-> trails, seen_devices |-> seen_devices,
   mqtt_seen |-> mqtt_seen, last_seen_broadcast |-> last_seen_broadcast,
   device_names |-> device_names, device_roles |-> device_roles,
   device_role_sources |-> device_role_sources,
   node_hash_to_device |-> node_hash_to_device,
   node_hash_candidates |-> node_hash_candidates,
   state_dirty |-> state_dirty, routes |-> routes,
   heat_events |-> heat_events, message_origins |-> message_origins,
   route_history_segments |-> route_history_segments,
   route_history_edges |-> route_history_edges,
   route_history_compact |-> route_history_compact,
   update_queue |-> update_queue, clients |-> clients,
   b_pc |-> b_pc, b_event |-> b_event, b_loop |-> b_loop, b_more |-> b_more,
   r_pc |-> r_pc, r_now |-> r_now, r_pending |-> r_pending,
   r_loop |-> r_loop, received_total |-> received_total,
   role_hints |-> role_hints, done_loop |-> done_loop,
   state_file |-> state_file, tmp_file |-> tmp_file, s_pc |-> s_pc,
   history_file |-> history_file,
   route_history_last_compact |-> route_history_last_compact,
   compact_result |-> compact_result]

Commit(S) ==
  /\ devices' = S.devices
  /\ trails' = S.trails
  /\ seen_devices' = S.seen_devices
  /\ mqtt_seen' = S.mqtt_seen
  /\ last_seen_broadcast' = S.last_seen_broadcast
  /\ device_names' = S.device_names
  /\ device_roles' = S.device_roles
  /\ device_role_sources' = S.device_role_sources
  /\ node_hash_to_device' = S.node_hash_to_device
  /\ node_hash_candidates' = S.node_hash_candidates
  /\ state_dirty' = S.state_dirty
  /\ routes' = S.routes
  /\ heat_events' = S.heat_events
  /\ message_origins' = S.message_origins
  /\ route_history_segments' = S.route_history_segments
  /\ route_history_edges' = S.route_history_edges
  /\ route_history_compact' = S.route_history_compact
  /\ update_queue' = S.update_queue
  /\ clients' = S.clients
  /\ b_pc' = S.b_pc
  /\ b_event' = S.b_event
  /\ b_loop' = S.b_loop
  /\ b_more' = S.b_more
  /\ r_pc' = S.r_pc
  /\ r_now' = S.r_now
  /\ r_pending' = S.r_pending
  /\ r_loop' = S.r_loop
  /\ received_total' = S.received_total
  /\ role_hints' = S.role_hints
  /\ done_loop' = S.done_loop
  /\ state_file' = S.state_file
  /\ tmp_file' = S.tmp_file
  /\ s_pc' = S.s_pc
  /\ history_file' = S.history_file
  /\ route_history_last_compact' = S.route_history_last_compact
  /\ compact_result' = S.compact_result

(* The state after the modules are imported, with disk the state file an  *)
(* earlier run left                                                        *)
InitState(disk) ==
  /\ started = FALSE
  /\ now = 1
  /\ devices = EmptyMap
  /\ trails = EmptyMap
  /\ seen_devices = EmptyMap
  /\ mqtt_seen = EmptyMap
  /\ last_seen_broadcast = EmptyMap
  /\ device_names = EmptyMap
  /\ device_roles = EmptyMap
  /\ device_role_sources = EmptyMap
  /\ node_hash_to_device = EmptyMap
  /\ node_hash_candidates = EmptyMap
  /\ state_dirty = FALSE
  /\ routes = EmptyMap
  /\ heat_events = << >>
  /\ message_origins = EmptyMap
  /\ route_history_segments = << >>
  /\ route_history_edges = EmptyMap
  /\ route_history_compact = FALSE
  /\ update_queue = << >>
  /\ clients = {}
  /\ b_pc = "get"
  /\ b_event = NoEvent
  /\ b_loop = NoLoop
  /\ b_more = << >>
  /\ r_pc = "sleep"
  /\ r_now = 0
  /\ r_pending = {}
  /\ r_loop = NoLoop
  /\ received_total = 0
  /\ role_hints = EmptyMap
  /\ done_loop = NoLoop
  /\ state_file = disk
  /\ tmp_file = NoDisk
  /\ s_pc = "sleep"
  /\ history_file = << >>
  /\ route_history_last_compact = 0
  /\ compact_result = "none"

Init == InitState(NoDisk)

----------------------------------------------------------------------------
(* Ingest callback (services/mqtt.py), run on the broker thread *)

(* A route id is a formatted string; the record keeps its parts:           *)
(* prefix + hash, or prefix + a "-" b "-" t.                               *)
NoRouteId == [prefix |-> "", hash |-> "", a |-> NoId, b |-> NoId, t |-> 0]

RouteIdOfHash(h) == [NoRouteId EXCEPT !.hash = h]

(* an enqueue that puts the event in front of what is queued *)
EnqueueFront(S, ev) == [S EXCEPT !.update_queue = <<ev>> \o S.update_queue]

(* l.92-353: update_queue.put_nowait through loop.call_soon_threadsafe *)
Enqueue(S, ev) == [S EXCEPT !.update_queue = Append(S.update_queue, ev)]

(* l.80-98: online tracking from the topic *)
IngestOnline(S, m, t) ==
  LET dev_guess == m.topic_dev
  IN IF dev_guess # NoId /\ TopicMarksOnline(m)
       THEN LET S1 == [S EXCEPT !.seen_devices = Put(S.seen_devices, dev_guess, t),
                                !.mqtt_seen = Put(S.mqtt_seen, dev_guess, t)]
            IN IF dev_guess \in DOMAIN S.devices
                  /\ t - Get(S.last_seen_broadcast, dev_guess, 0) >= MQTT_SEEN_BROADCAST_MIN_SECONDS
                 THEN Enqueue([S1 EXCEPT !.last_seen_broadcast =
                                           Put(S.last_seen_broadcast, dev_guess, t)],
                              [type |-> "device_seen", device_id |-> dev_guess,
                               last_seen_ts |-> t, mqtt_seen_ts |-> t])
                 ELSE S1
       ELSE S

(* l.104-107: the zero filter on the parsed position *)
IngestZeroFilter(debug) ==
  IF debug.has_parsed /\ debug.parsed.lat = 0 /\ debug.parsed.lon = 0
    THEN [debug EXCEPT !.result = "filtered_zero_coords", !.has_parsed = FALSE]
    ELSE debug

(* l.109-112: the radius filter on the parsed position *)
IngestRadiusFilter(debug) ==
  IF debug.has_parsed /\ ~WithinMapRadius(debug.parsed.lat, debug.parsed.lon)
    THEN [debug EXCEPT !.result = "filtered_radius", !.has_parsed = FALSE]
    ELSE debug

(* l.129-140: the device a role hint is about *)
RoleTargetId(m, debug, origin_id) ==
  IF debug.device_role # "" /\ debug.result \in {"decoded", "decoded_no_location"}
    THEN LET loc_pubkey == IF debug.has_meta /\ debug.meta_ok THEN m.dec_pubkey ELSE NoId
         IN IF loc_pubkey # NoId THEN loc_pubkey ELSE debug.decoded_pubkey
    ELSE origin_id

(* l.174-190: the name hint *)
IngestName(S, device_name, origin_id) ==
  IF device_name # "" /\ origin_id # NoId
     /\ Get(S.device_names, origin_id, "") # device_name
    THEN LET S1 == [S EXCEPT !.device_names = Put(S.device_names, origin_id, device_name),
                             !.state_dirty = TRUE]
         IN IF origin_id \in DOMAIN S.devices
              THEN Enqueue([S1 EXCEPT !.devices[origin_id].name = device_name],
                           [type |-> "device_name", device_id |-> origin_id])
              ELSE S1
    ELSE S

(* l.192-208: the role hint *)
IngestRole(S0, device_role, role_target_id) ==
  LET S == IF device_role # "" /\ role_target_id # NoId
             THEN [S0 EXCEPT !.role_hints = Put(S0.role_hints, role_target_id, device_role)]
             ELSE S0
  IN
  IF device_role # "" /\ role_target_id # NoId
     /\ Get(S.device_roles, role_target_id, "") # device_role
    THEN LET S1 == [S EXCEPT
                      !.device_roles = Put(S.device_roles, role_target_id, device_role),
                      !.device_role_sources =
                         Put(S.device_role_sources, role_target_id, "explicit"),
                      !.state_dirty = TRUE]
         IN IF role_target_id \in DOMAIN S.devices
              THEN Enqueue([S1 EXCEPT !.devices[role_target_id].role = device_role],
                           [type |-> "device_role", device_id |-> role_target_id])
              ELSE S1
    ELSE S

(* l.210-253: the routing fields of the message and the message-origin     *)
(* cache.  The result is [S, route_origin_id] with the other fields the    *)
(* route events carry.                                                     *)
IngestRouting(S, m, debug, origin_id, t) ==
  LET has_meta == debug.has_meta /\ debug.meta_ok
      path_hashes == IF has_meta THEN m.dec_pathHashes ELSE << >>
      payload_type == IF has_meta THEN m.dec_payloadType ELSE NoInt
      route_type == IF has_meta THEN m.dec_routeType ELSE NoInt
      message_hash == IF has_meta /\ m.dec_messageHash # "" THEN m.dec_messageHash
                      ELSE debug.packet_hash
      path_is_list == has_meta /\ m.dec_path_is_list
      path_header == IF has_meta THEN m.dec_path ELSE << >>
      direction_value == debug.direction
      receiver_id == m.topic_dev
      loc_origin == IF has_meta THEN m.dec_pubkey ELSE NoId
      old == IF message_hash # "" /\ message_hash \in DOMAIN S.message_origins
               THEN S.message_origins[message_hash]
               ELSE [origin_id |-> NoId, first_rx |-> NoId, receivers |-> {}, ts |-> t]
      origin_for_tx == IF origin_id # NoId THEN origin_id ELSE receiver_id
      c1 == [old EXCEPT !.ts = t]
      c2 == IF direction_value = "tx" /\ origin_for_tx # NoId
              THEN [c1 EXCEPT !.origin_id = origin_for_tx] ELSE c1
      c3 == IF direction_value = "rx" /\ receiver_id # NoId
              THEN [c2 EXCEPT !.receivers = c2.receivers \cup {receiver_id},
                              !.first_rx = IF c2.first_rx = NoId THEN receiver_id
                                           ELSE c2.first_rx]
              ELSE c2
      o1 == IF loc_origin = NoId /\ c3.origin_id # NoId THEN c3.origin_id ELSE loc_origin
      o2 == IF o1 = NoId /\ direction_value = "rx" /\ c3.first_rx # NoId
               /\ receiver_id # NoId /\ receiver_id # c3.first_rx
              THEN c3.first_rx ELSE o1
      cached_origin == IF message_hash # "" THEN o2 ELSE loc_origin
      route_hashes == IF path_hashes # << >> THEN path_hashes
                      ELSE IF payload_type \notin {8, 9} /\ path_is_list
                              /\ route_type \in {0, 1}
                        THEN path_header
                      ELSE << >>
  IN [S |-> IF message_hash # ""
              THEN [S EXCEPT !.message_origins = Put(S.message_origins, message_hash, c3)]
              ELSE S,
      route_origin_id |-> IF cached_origin # NoId THEN cached_origin ELSE origin_id,
      route_hashes |-> route_hashes, payload_type |-> payload_type,
      route_type |-> route_type, message_hash |-> message_hash,
      direction_value |-> direction_value, receiver_id |-> receiver_id]

(* route events emitted without the route_emitted guard: the direct        *)
(* fallback goes out after a path event as well                            *)
IngestRouteEventsUnguarded(S, m, r, t) ==
  LET base == [type |-> "route", route_mode |-> "", route_id |-> NoRouteId,
               path_hashes |-> << >>, payload_type |-> r.payload_type,
               message_hash |-> r.message_hash, origin_id |-> r.route_origin_id,
               receiver_id |-> r.receiver_id, route_type |-> r.route_type, ts |-> t]
      S1 == IF r.route_hashes # << >> /\ r.payload_type \in ROUTE_PAYLOAD_TYPES_SET
              THEN Enqueue(S, [base EXCEPT !.path_hashes = r.route_hashes])
              ELSE S
  IN IF r.direction_value = "rx" /\ m.topic_suffix = "packets"
        /\ r.receiver_id # NoId /\ r.route_origin_id # NoId
        /\ r.receiver_id # r.route_origin_id
        /\ r.payload_type \in ROUTE_PAYLOAD_TYPES_SET
       THEN Enqueue(S1, [base EXCEPT
                           !.route_mode = "direct",
                           !.route_id = [NoRouteId EXCEPT !.prefix = "direct-",
                                                          !.hash = r.message_hash]])
       ELSE S1

(* l.273-336: at most one route event *)
IngestRouteEvents(S, m, r, t) ==
  LET packets == m.topic_suffix = "packets"
      base == [type |-> "route", route_mode |-> "", route_id |-> NoRouteId,
               path_hashes |-> << >>, payload_type |-> r.payload_type,
               message_hash |-> r.message_hash, origin_id |-> r.route_origin_id,
               receiver_id |-> r.receiver_id, route_type |-> r.route_type, ts |-> t]
      path_case == r.route_hashes # << >> /\ r.payload_type \in ROUTE_PAYLOAD_TYPES_SET
      fanout_case == ~path_case /\ r.message_hash # "" /\ r.route_origin_id # NoId
                     /\ r.receiver_id # NoId
                     /\ r.direction_value = "rx" /\ packets
      route_emitted == path_case \/ fanout_case
      direct_case == ~route_emitted /\ r.direction_value = "rx" /\ packets
                     /\ r.receiver_id # NoId /\ r.route_origin_id # NoId
                     /\ r.receiver_id # r.route_origin_id
                     /\ r.payload_type \in ROUTE_PAYLOAD_TYPES_SET
      fallback_id == IF r.message_hash # ""
                       THEN [NoRouteId EXCEPT !.prefix = "direct-", !.hash = r.message_hash]
                       ELSE [prefix |-> "direct-", hash |-> "", a |-> r.route_origin_id,
                             b |-> r.receiver_id, t |-> t]
  IN IF path_case
       THEN Enqueue(S, [base EXCEPT !.path_hashes = r.route_hashes])
     ELSE IF fanout_case
       THEN Enqueue(S, [base EXCEPT
                          !.route_mode = "fanout",
                          !.route_id = [NoRouteId EXCEPT !.hash = r.message_hash,
                                                         !.b = r.receiver_id]])
     ELSE IF direct_case
       THEN Enqueue(S, [base EXCEPT !.route_mode = "direct", !.route_id = fallback_id])
     ELSE S

(* l.338-353: the parsed position, if the filters left one *)
IngestPosition(S, debug) ==
  IF ~debug.has_parsed THEN S
  ELSE Enqueue(S, [type |-> "device", data |-> debug.parsed])

(* l.273-353: the route event and the position, after the routing fields *)
IngestRouted(r, m, debug, t) ==
  IngestPosition(IngestRouteEvents(r.S, m, r, t), debug)

(* a position outside the radius dropped without a device_remove event *)
IngestRadiusDropOnly(S, debug, device_id_hint) ==
  S

(* l.110-121: a position outside the radius removes the device it names *)
IngestRadiusRemove(S, debug, device_id_hint) ==
  IF debug.result = "filtered_radius" /\ device_id_hint # NoId
    THEN Enqueue(S, [type |-> "device_remove", device_id |-> device_id_hint])
    ELSE S

(* l.110-353: the hints, the routing fields and the events of the message, *)
(* debug being the record the filters left                                 *)
IngestFiltered(S, m, debug, device_id_hint, origin_id, t) ==
  IngestRouted(
    IngestRouting(
      IngestRole(
        IngestName(IngestRadiusRemove(S, debug, device_id_hint),
                   debug.device_name, origin_id),
        debug.device_role, RoleTargetId(m, debug, origin_id)),
      m, debug, origin_id, t),
    m, debug, t)

(* l.124: the origin the message names, or the device of the topic *)
IngestOrigin(S, m, debug, device_id_hint, t) ==
  IngestFiltered(S, m, debug, device_id_hint,
                 IF debug.origin_id # NoId THEN debug.origin_id ELSE m.topic_dev, t)

(* l.100-112: the parsed record goes through the zero and radius filters *)
IngestParsed(S, m, debug_raw, t) ==
  IngestOrigin(S, m, IngestRadiusFilter(IngestZeroFilter(debug_raw)),
               IF debug_raw.has_parsed THEN debug_raw.parsed.device_id ELSE NoId, t)

(* services.mqtt.on_message, at time t *)
IngestMessage(S, m, t) ==
  IngestParsed(IngestOnline([S EXCEPT !.received_total = S.received_total + 1], m, t),
               m, TryParsePayload(m, t), t)

----------------------------------------------------------------------------
(* Send loops (services/broadcaster.py, services/reaper.py) *)

(* a loop that gives up at the first send that raises *)
LoopStepAbort(L, fails) ==
  LET ws == Head(L.todo)
  IN IF fails
       THEN [L EXCEPT !.dead = Append(L.dead, ws), !.todo = << >>, !.idx = 1]
     ELSE IF L.idx < Len(L.group)
       THEN [L EXCEPT !.idx = L.idx + 1]
     ELSE [L EXCEPT !.ok = L.ok \cup {ws}, !.todo = Tail(L.todo), !.idx = 1]

(* One resumption of "await ws.send_text(...)" for the head of todo: the    *)
(* send raised (fails) or returned.                                        *)
LoopStep(L, fails) ==
  LET ws == Head(L.todo)
  IN IF fails
       THEN [L EXCEPT !.dead = Append(L.dead, ws), !.todo = Tail(L.todo), !.idx = 1]
     ELSE IF L.idx < Len(L.group)
       THEN [L EXCEPT !.idx = L.idx + 1]
     ELSE [L EXCEPT !.ok = L.ok \cup {ws}, !.todo = Tail(L.todo), !.idx = 1]

(* "for ws in list(clients)" over the frames of group *)
NewLoop(group, cl) ==
  LET snap == SetToSeq(cl)
  IN [group |-> group, snap |-> snap, todo |-> snap, idx |-> 1,
      dead |-> << >>, ok |-> {}]

(* "for ws in dead: clients.discard(ws)" at the end of the loop L *)
DiscardDead(S, L) ==
  [S EXCEPT !.clients = S.clients \ Range(L.dead),
            !.done_loop = [L EXCEPT !.group = << >>, !.idx = 0]]

(* The broadcaster goes through the send loops of groups until one of them *)
(* suspends in a send, or back to "await update_queue.get()".              *)
RECURSIVE BroadcasterLoops(_, _)
BroadcasterLoops(S, groups) ==
  IF groups = << >>
    THEN [S EXCEPT !.b_pc = "get", !.b_loop = NoLoop, !.b_more = << >>]
  ELSE IF S.clients = {}
    THEN BroadcasterLoops(S, Tail(groups))
  ELSE [S EXCEPT !.b_pc = "send", !.b_loop = NewLoop(Head(groups), S.clients),
                 !.b_more = Tail(groups)]

----------------------------------------------------------------------------
(* Broadcaster (services/broadcaster.py) *)

UpdateFrame(S, device_id) ==
  [type |-> "update", device_id |-> device_id, device |-> S.devices[device_id],
   trail |-> Get(S.trails, device_id, << >>)]

(* decoder._rebuild_node_hash_map assigns the two maps of state.py *)
WithHashMaps(S, maps) ==
  [S EXCEPT !.node_hash_to_device = maps.to_device,
            !.node_hash_candidates = maps.candidates]

(* an eviction that leaves the trail of the device behind *)
EvictDeviceKeepTrail(S, device_id) ==
  LET removed == device_id \in DOMAIN S.devices
      S1 == [S EXCEPT !.devices = Del(S.devices, device_id),
                      !.seen_devices = Del(S.seen_devices, device_id),
                      !.mqtt_seen = Del(S.mqtt_seen, device_id),
                      !.last_seen_broadcast = Del(S.last_seen_broadcast, device_id)]
  IN [removed |-> removed,
      S |-> IF removed
              THEN WithHashMaps([S1 EXCEPT !.state_dirty = TRUE],
                                RebuildNodeHashMap(S1.devices))
              ELSE S1]

(* evict_device: the new state and the value returned *)
EvictDevice(S, device_id) ==
  LET removed == device_id \in DOMAIN S.devices
      S1 == [S EXCEPT !.devices = Del(S.devices, device_id),
                      !.trails = Del(S.trails, device_id),
                      !.seen_devices = Del(S.seen_devices, device_id),
                      !.mqtt_seen = Del(S.mqtt_seen, device_id),
                      !.last_seen_broadcast = Del(S.last_seen_broadcast, device_id)]
  IN [removed |-> removed,
      S |-> IF removed
              THEN WithHashMaps([S1 EXCEPT !.state_dirty = TRUE],
                                RebuildNodeHashMap(S1.devices))
              ELSE S1]

(* l.156-178: device_name and device_role events *)
ApplyNameRole(S, event) ==
  LET device_id == event.device_id
  IN IF device_id \in DOMAIN S.devices
       THEN LET st == S.devices[device_id]
                named == IF device_id \in DOMAIN S.device_names
                           THEN [st EXCEPT !.name = S.device_names[device_id]] ELSE st
                roled == IF device_id \in DOMAIN S.device_roles
                           THEN [named EXCEPT !.role = S.device_roles[device_id]]
                           ELSE named
                S1 == [S EXCEPT !.devices[device_id] = roled]
            IN [S |-> S1, groups |-> << <<UpdateFrame(S1, device_id)>> >>]
       ELSE [S |-> S, groups |-> << >>]

(* l.180-204: device_seen events *)
ApplySeen(S, event, t) ==
  LET device_id == event.device_id
  IN IF device_id \in DOMAIN S.devices
       THEN LET seen_ts == IF event.last_seen_ts # 0 THEN event.last_seen_ts ELSE t
                mqtt_ts == event.mqtt_seen_ts
                S1 == [S EXCEPT !.seen_devices = Put(S.seen_devices, device_id, seen_ts),
                                !.mqtt_seen = IF mqtt_ts # 0
                                                THEN Put(S.mqtt_seen, device_id, mqtt_ts)
                                                ELSE S.mqtt_seen]
            IN [S |-> S1,
                groups |-> << <<[type |-> "device_seen", device_id |-> device_id,
                                 last_seen_ts |-> seen_ts, mqtt_seen_ts |-> mqtt_ts]>> >>]
       ELSE [S |-> S, groups |-> << >>]

StaleFrame(ids) == [type |-> "stale", device_ids |-> ids]

(* l.209-219, l.327-337: the stale frame goes out if evict_device removed  *)
(* the device                                                              *)
Evicted(ev, device_id) ==
  [S |-> ev.S,
   groups |-> IF ev.removed THEN << <<StaleFrame({device_id})>> >> ELSE << >>]

(* l.206-219: device_remove events *)
ApplyRemove(S, event) ==
  IF event.device_id # NoId
    THEN Evicted(EvictDevice(S, event.device_id), event.device_id)
    ELSE [S |-> S, groups |-> << >>]

(* trails[device_id][-TRAIL_LEN:] *)
LastN(s, n) == IF Len(s) > n THEN SubSeq(s, Len(s) - n + 1, Len(s)) ELSE s

(* l.339-372: the device state is stored, the hash map rebuilt for a new   *)
(* device, and the trail extended                                          *)
DeviceStored(S, device_id, device_state, is_new_device, t) ==
  LET trail == Append(Get(S.trails, device_id, << >>),
                      <<device_state.lat, device_state.lon, device_state.ts>>)
      S1 == [S EXCEPT
               !.devices = Put(S.devices, device_id, device_state),
               !.seen_devices = Put(S.seen_devices, device_id, t),
               !.state_dirty = TRUE,
               !.device_names =
                  IF device_state.name # ""
                    THEN Put(S.device_names, device_id, device_state.name)
                    ELSE S.device_names,
               !.device_roles =
                  IF device_state.role # ""
                    THEN Put(S.device_roles, device_id, device_state.role)
                    ELSE S.device_roles,
               !.trails =
                  IF TRAIL_LEN > 0
                     /\ ~CoordsAreZero(device_state.lat, device_state.lon)
                    THEN Put(S.trails, device_id, LastN(trail, TRAIL_LEN))
                    ELSE Del(S.trails, device_id)]
  IN IF is_new_device THEN WithHashMaps(S1, RebuildNodeHashMap(S1.devices)) ELSE S1

(* l.374-378: the update frame of the stored device *)
DeviceUpdated(S, device_id) ==
  [S |-> S, groups |-> << <<UpdateFrame(S, device_id)>> >>]

(* l.322-378: device position events *)
ApplyDevice(S, event, t) ==
  LET upd == event.data
      device_id == upd.device_id
  IN IF ~WithinMapRadius(upd.lat, upd.lon)
       THEN Evicted(EvictDevice(S, device_id), device_id)
     ELSE DeviceUpdated(
            DeviceStored(S, device_id,
                         [lat |-> upd.lat, lon |-> upd.lon, ts |-> upd.ts,
                          name |-> IF upd.name # "" THEN upd.name
                                   ELSE Get(S.device_names, device_id, ""),
                          role |-> IF upd.role # "" THEN upd.role
                                   ELSE Get(S.device_roles, device_id, "")],
                         device_id \notin DOMAIN S.devices, t),
            device_id)

(* decoder._append_heat_points *)
RECURSIVE AppendHeatPoints(_, _, _)
AppendHeatPoints(heat, points, ts) ==
  IF HEAT_TTL_SECONDS <= 0 \/ points = << >> THEN heat
  ELSE AppendHeatPoints(Append(heat, [lat |-> Head(points)[1], lon |-> Head(points)[2],
                                      ts |-> ts]),
                        Tail(points), ts)

(* l.232-248: the points by path hashes res, or else by the ids by_ids *)
ResolvedPoints(event, res, by_ids) ==
  IF res.raised
    THEN [raised |-> TRUE, points |-> << >>, used_hashes |-> << >>,
          point_ids |-> << >>, route_mode |-> event.route_mode]
  ELSE IF res.points # << >>
    THEN [raised |-> FALSE, points |-> res.points, used_hashes |-> res.used_hashes,
          point_ids |-> res.point_ids, route_mode |-> event.route_mode]
  ELSE IF by_ids # << >>
    THEN [raised |-> FALSE, points |-> by_ids, used_hashes |-> res.used_hashes,
          point_ids |-> <<event.origin_id, event.receiver_id>>,
          route_mode |-> IF event.route_mode = "fanout" THEN "fanout" ELSE "direct"]
  ELSE [raised |-> FALSE, points |-> << >>, used_hashes |-> res.used_hashes,
        point_ids |-> res.point_ids, route_mode |-> event.route_mode]

(* l.228-248: the points of a route event.  raised is TRUE where the       *)
(* unpacking of l.230 raises ValueError.                                   *)
ResolveRoutePoints(S, event) ==
  ResolvedPoints(event,
                 RoutePointsFromHashes(S.devices, S.node_hash_to_device,
                                       event.path_hashes, event.origin_id,
                                       event.receiver_id),
                 RoutePointsFromDeviceIds(S.devices, event.origin_id,
                                          event.receiver_id))

(* the route built with its mode taken from the used hashes alone, the    *)
(* mode of the event ignored                                               *)
MakeRouteModeByHashes(event, rp, t) ==
  LET ts == IF event.ts # 0 THEN event.ts ELSE t
      route_id == IF event.route_id # NoRouteId THEN event.route_id
                  ELSE IF event.message_hash # "" THEN RouteIdOfHash(event.message_hash)
                  ELSE [NoRouteId EXCEPT !.a = event.origin_id, !.t = event.ts]
  IN [id |-> route_id, points |-> rp.points, hashes |-> rp.used_hashes,
      point_ids |-> rp.point_ids,
      route_mode |-> IF rp.used_hashes # << >> THEN "path" ELSE "direct",
      ts |-> ts, expires_at |-> ts + ROUTE_TTL_SECONDS,
      origin_id |-> event.origin_id, receiver_id |-> event.receiver_id,
      payload_type |-> event.payload_type, message_hash |-> event.message_hash]

(* l.263-283: the route built from a route event *)
MakeRoute(event, rp, t) ==
  LET ts == IF event.ts # 0 THEN event.ts ELSE t
      route_id == IF event.route_id # NoRouteId THEN event.route_id
                  ELSE IF event.message_hash # "" THEN RouteIdOfHash(event.message_hash)
                  ELSE [NoRouteId EXCEPT !.a = event.origin_id, !.t = event.ts]
  IN [id |-> route_id, points |-> rp.points, hashes |-> rp.used_hashes,
      point_ids |-> rp.point_ids,
      route_mode |-> IF rp.route_mode # "" THEN rp.route_mode
                     ELSE IF rp.used_hashes # << >> THEN "path" ELSE "direct",
      ts |-> ts, expires_at |-> ts + ROUTE_TTL_SECONDS,
      origin_id |-> event.origin_id, receiver_id |-> event.receiver_id,
      payload_type |-> event.payload_type, message_hash |-> event.message_hash]

HistoryOf(S) ==
  [segs |-> S.route_history_segments, edges |-> S.route_history_edges,
   compact |-> S.route_history_compact, updated |-> {}, removed |-> << >>,
   file |-> S.history_file]

WithHistory(S, h) ==
  [S EXCEPT !.route_history_segments = h.segs, !.route_history_edges = h.edges,
            !.route_history_compact = h.compact, !.history_file = h.file]

(* the frames of l.300-308 / reaper l.101-108, sent inside one try block *)
HistoryGroups(h) ==
  IF h.updated = {} /\ h.removed = << >> THEN << >>
  ELSE << (IF h.updated # {}
             THEN <<[type |-> "history_edges", edges |-> h.updated]>> ELSE << >>)
          \o (IF h.removed # << >>
                THEN <<[type |-> "history_edges_remove", edge_ids |-> h.removed]>>
                ELSE << >>) >>

(* l.284-320: the route is stored with its heat points; its frame and the *)
(* history frames of the recording h go out                                *)
RouteStored(S, route, h) ==
  [raised |-> FALSE,
   S |-> WithHistory([S EXCEPT
                        !.heat_events = AppendHeatPoints(S.heat_events, route.points,
                                                         route.ts),
                        !.routes = Put(S.routes, route.id, route)], h),
   groups |-> << <<[type |-> "route", route |-> route]>> >> \o HistoryGroups(h)]

(* l.287: history._record_route_history(route) *)
StoreRoute(S, route, t) ==
  RouteStored(S, route, RecordRouteHistory(HistoryOf(S), route, t))

(* l.250-283: a route without points or with a point outside the radius is *)
(* dropped                                                                 *)
ApplyResolved(S, event, rp, t) ==
  IF rp.raised THEN [raised |-> TRUE, S |-> S, groups |-> << >>]
  ELSE IF rp.points = << >>
          \/ (MAP_RADIUS > 0
              /\ \E i \in 1..Len(rp.points) :
                    ~WithinMapRadius(rp.points[i][1], rp.points[i][2]))
    THEN [raised |-> FALSE, S |-> S, groups |-> << >>]
  ELSE StoreRoute(S, MakeRoute(event, rp, t), t)

(* l.221-320: route events *)
ApplyRoute(S, event, t) ==
  ApplyResolved(S, event, ResolveRoutePoints(S, event), t)

----------------------------------------------------------------------------
(* Reaper (services/reaper.py).  One tick runs through its phases until a  *)
(* send suspends it; r_pc names the phase whose loop it is suspended in.   *)

RECURSIVE DelAll(_, _)
DelAll(f, ks) ==
  IF ks = {} THEN f
  ELSE LET k == CHOOSE x \in ks : TRUE IN DelAll(Del(f, k), ks \ {k})

(* l.114-131: heat events, message origins and seen entries, then sleep *)
ReaperFinish(S) ==
  LET prune_after == IF DEVICE_TTL_SECONDS > 0 THEN Max(DEVICE_TTL_SECONDS * 3, 900)
                     ELSE 86400
  IN [S EXCEPT
        !.heat_events =
           IF HEAT_TTL_SECONDS > 0
             THEN SelectSeq(S.heat_events,
                            LAMBDA e : e.ts >= S.r_now - HEAT_TTL_SECONDS)
             ELSE S.heat_events,
        !.message_origins =
           DelAll(S.message_origins,
                  {h \in DOMAIN S.message_origins :
                     S.r_now - S.message_origins[h].ts > MESSAGE_ORIGIN_TTL_SECONDS}),
        !.seen_devices =
           DelAll(S.seen_devices,
                  {d \in DOMAIN S.seen_devices :
                     S.r_now - S.seen_devices[d] > prune_after}),
        !.r_pc = "sleep", !.r_loop = NoLoop, !.r_pending = {}]

(* l.99-112: the time-based history prune, at clock time t *)
ReaperPruned(S, groups) ==
  IF groups # << >> /\ S.clients # {}
    THEN [S EXCEPT !.r_pc = "history", !.r_pending = {},
                   !.r_loop = NewLoop(Head(groups), S.clients)]
    ELSE ReaperFinish(S)

(* l.100: history._prune_route_history() returned h *)
ReaperHistoryPruned(S, h) ==
  ReaperPruned(WithHistory(S, h), HistoryGroups(h))

ReaperHistory(S, t) ==
  ReaperHistoryPruned(S, PruneRouteHistory(HistoryOf(S), FALSE, t))

(* the reaper going on after the route_remove sends without the pops of   *)
(* l.96-97                                                                 *)
ReaperAfterExpiredKeep(S, t) ==
  ReaperHistory(S, t)

(* l.96-97 *)
ReaperAfterExpired(S, t) ==
  ReaperHistory([S EXCEPT !.routes = DelAll(S.routes, S.r_pending)], t)

(* l.84-95: expired routes *)
ReaperExpired(S, t) ==
  LET stale_routes == {id \in DOMAIN S.routes : S.r_now > S.routes[id].expires_at}
      S1 == [S EXCEPT !.r_pending = stale_routes]
  IN IF stale_routes = {} THEN ReaperHistory(S, t)
     ELSE IF S.clients # {}
       THEN [S1 EXCEPT !.r_pc = "expired",
                       !.r_loop = NewLoop(<<[type |-> "route_remove",
                                             route_ids |-> stale_routes]>>, S.clients)]
     ELSE ReaperAfterExpired(S1, t)

(* l.81-82 *)
ReaperAfterBad(S, t) ==
  ReaperExpired([S EXCEPT !.routes = DelAll(S.routes, S.r_pending)], t)

(* l.62-80: routes with a zero-coordinate point *)
ReaperBadRoutes(S, t) ==
  LET bad_routes == {id \in DOMAIN S.routes :
                       \E i \in 1..Len(S.routes[id].points) :
                          CoordsAreZero(S.routes[id].points[i][1],
                                        S.routes[id].points[i][2])}
      S1 == [S EXCEPT !.r_pending = bad_routes]
  IN IF bad_routes = {} THEN ReaperExpired(S, t)
     ELSE IF S.clients # {}
       THEN [S1 EXCEPT !.r_pc = "bad",
                       !.r_loop = NewLoop(<<[type |-> "route_remove",
                                             route_ids |-> bad_routes]>>, S.clients)]
     ELSE ReaperAfterBad(S1, t)

(* l.56-60 *)
ReaperAfterStale(S, t) ==
  ReaperBadRoutes(
    WithHashMaps([S EXCEPT !.devices = DelAll(S.devices, S.r_pending),
                           !.trails = DelAll(S.trails, S.r_pending),
                           !.state_dirty = TRUE],
                 RebuildNodeHashMap(DelAll(S.devices, S.r_pending))), t)

(* l.39-54: the start of a tick at clock time t, stale devices *)
ReaperTick(S, t) ==
  LET S0 == [S EXCEPT !.r_now = t]
      stale == IF DEVICE_TTL_SECONDS > 0
                 THEN {d \in DOMAIN S.devices : t - S.devices[d].ts > DEVICE_TTL_SECONDS}
                 ELSE {}
      S1 == [S0 EXCEPT !.r_pending = stale]
  IN IF stale = {} THEN ReaperBadRoutes(S0, t)
     ELSE IF S.clients # {}
       THEN [S1 EXCEPT !.r_pc = "stale",
                       !.r_loop = NewLoop(<<StaleFrame(stale)>>, S.clients)]
     ELSE ReaperAfterStale(S1, t)

(* the reaper resumes after the last send of the loop of phase r_pc *)
ReaperResume(S, t) ==
  CASE S.r_pc = "stale" -> ReaperAfterStale(S, t)
    [] S.r_pc = "bad" -> ReaperAfterBad(S, t)
    [] S.r_pc = "expired" -> ReaperAfterExpired(S, t)
    [] OTHER -> ReaperFinish(S)

----------------------------------------------------------------------------
(* State loader (services/persistence.py) *)

Restrict(f, ks) == [x \in ks |-> f[x]]

Update(f, g) == [x \in (DOMAIN f) \cup (DOMAIN g) |-> IF x \in DOMAIN g THEN g[x] ELSE f[x]]

(* l.106-130: the entries of one saved trail that are kept *)
CleanTrail(trail) ==
  SelectSeq(trail, LAMBDA e : ~(CoordsAreZero(e[1], e[2]) \/ ~WithinMapRadius(e[1], e[2])))

(* the overrides join the roles and the dropped ids stay in *)
ApplyRoleOverridesKept(roles, role_overrides, dropped_ids) ==
  Update(roles, role_overrides)

(* load_state l.186-194: device_roles.update(role_overrides), then the     *)
(* dropped ids are popped from device_roles                                *)
ApplyRoleOverrides(roles, role_overrides, dropped_ids) ==
  DelAll(Update(roles, role_overrides), dropped_ids)

(* persistence.load_state with the state file and the role-overrides file *)
LoadState(S, file, role_overrides) ==
  IF ~file.exists THEN S
  ELSE
    LET dropped_ids ==
          {k \in DOMAIN file.devices :
             CoordsAreZero(file.devices[k].lat, file.devices[k].lon)
             \/ ~WithinMapRadius(file.devices[k].lat, file.devices[k].lon)}
        loaded_devices == Restrict(file.devices, (DOMAIN file.devices) \ dropped_ids)
        kept_trails == {d \in DOMAIN file.trails : CleanTrail(file.trails[d]) # << >>}
        cleaned_trails == [d \in kept_trails |-> CleanTrail(file.trails[d])]
        filtered_any == \E d \in DOMAIN file.trails :
                          CleanTrail(file.trails[d]) # file.trails[d]
                          \/ CleanTrail(file.trails[d]) = << >>
        off == TRAIL_LEN <= 0 /\ DOMAIN cleaned_trails # {}
        trails1 == IF off THEN EmptyMap ELSE cleaned_trails
        trails2 == DelAll(trails1, dropped_ids)
        trails_dirty == filtered_any \/ off \/ dropped_ids # {}
        names == DelAll(file.device_names, dropped_ids)
        sources1 == DelAll(file.device_role_sources, dropped_ids)
        roles1 == Restrict(file.device_roles,
                           {k \in DOMAIN file.device_roles :
                              /\ k \notin dropped_ids
                              /\ file.device_roles[k] # ""
                              /\ Get(sources1, k, "") \in {"explicit", "override"}})
        sources2 == Update(sources1, [k \in DOMAIN role_overrides |-> "override"])
        roles2 == ApplyRoleOverrides(roles1, role_overrides, dropped_ids)
        applied ==
          [d \in DOMAIN loaded_devices |->
             [loaded_devices[d] EXCEPT
                !.name = IF loaded_devices[d].name = "" /\ d \in DOMAIN names
                           THEN names[d] ELSE loaded_devices[d].name,
                !.role = Get(roles2, d, "")]]
    IN WithHashMaps([S EXCEPT
                       !.devices = applied,
                       !.trails = trails2,
                       !.seen_devices = DelAll(file.seen_devices, dropped_ids),
                       !.state_dirty = S.state_dirty \/ trails_dirty,
                       !.device_names = names,
                       !.device_role_sources = sources2,
                       !.device_roles = roles2],
                    RebuildNodeHashMap(loaded_devices))

(* persistence.serialize_state: the content json.dump writes, a state     *)
(* file as load_state reads it                                             *)
SerializeState(S) ==
  [exists |-> TRUE, devices |-> S.devices, trails |-> S.trails,
   seen_devices |-> S.seen_devices, device_names |-> S.device_names,
   device_roles |-> S.device_roles, device_role_sources |-> S.device_role_sources]

----------------------------------------------------------------------------
(* State saver (services/persistence.py state_saver) *)

(* how far the try block of l.209-217 gets before it raises *)
SaveOutcomes == {"makedirs_raises", "open_raises", "dump_raises", "written"}

(* l.211-217 with the rename done although json.dump raised *)
SaverWriteThrough(S, outcome) ==
  IF ~S.state_dirty THEN S
  ELSE IF outcome \in {"makedirs_raises", "open_raises"} THEN S
  ELSE IF outcome = "dump_raises"
    THEN [S EXCEPT !.state_file = OnDisk(SerializeState(S), FALSE),
                   !.state_dirty = FALSE]
  ELSE [S EXCEPT !.tmp_file = OnDisk(SerializeState(S), TRUE), !.s_pc = "written"]

(* l.208-215: the dirty test, makedirs, open(tmp_path, "w") and json.dump. *)
(* A dump that raises leaves a document cut short in the tmp file.         *)
SaverWrite(S, outcome) ==
  IF ~S.state_dirty THEN S
  ELSE IF outcome \in {"makedirs_raises", "open_raises"} THEN S
  ELSE IF outcome = "dump_raises"
    THEN [S EXCEPT !.tmp_file = OnDisk(SerializeState(S), FALSE)]
  ELSE [S EXCEPT !.tmp_file = OnDisk(SerializeState(S), TRUE), !.s_pc = "written"]

(* l.216: os.replace(tmp_path, STATE_FILE) returns or raises *)
SaverReplaced(S, raises) ==
  IF raises THEN [S EXCEPT !.s_pc = "sleep"]
  ELSE [S EXCEPT !.state_file = S.tmp_file, !.tmp_file = NoDisk, !.s_pc = "replaced"]

(* l.217: state.state_dirty = False *)
SaverCleared(S) == [S EXCEPT !.state_dirty = FALSE, !.s_pc = "sleep"]

(* app_refactored.startup l.44: _load_route_history() after load_state() *)
LoadHistoryInto(S, journal, t) ==
  WithHistory(S, LoadRouteHistory(HistoryOf(S), journal, t))

----------------------------------------------------------------------------
(* Actions *)

(* app_refactored.startup: load_state(), _load_route_history(), then the   *)
(* broker client and the tasks are started.                                *)
Startup(file, role_overrides, journal) ==
  /\ ~started
  /\ started' = TRUE
  /\ Commit(LoadHistoryInto(LoadState(Cur, file, role_overrides), journal, now))
  /\ UNCHANGED now

(* the wall clock advances *)
Tick ==
  /\ now < MaxTime
  /\ now' = now + 1
  /\ UNCHANGED <<started, devices, trails, seen_devices, mqtt_seen,
                 last_seen_broadcast, device_names, device_roles,
                 device_role_sources, node_hash_to_device, node_hash_candidates,
                 state_dirty, routes, heat_events, message_origins,
                 route_history_segments, route_history_edges,
                 route_history_compact, update_queue, clients, b_pc, b_event,
                 b_loop, b_more, r_pc, r_now, r_pending, r_loop,
                 received_total, role_hints, done_loop, state_file, tmp_file,
                 s_pc, history_file, route_history_last_compact,
                 compact_result>>

(* the queue holds at most MaxQueue events *)
CommitBounded(S) ==
  /\ Len(S.update_queue) <= MaxQueue
  /\ Commit(S)

(* services.mqtt.on_message for the broker message m.  The callback runs   *)
(* on the broker thread, at any point between two steps of the loop tasks; *)
(* its put_nowait calls reach the queue in the order they were made.       *)
OnMessage(m) ==
  /\ started
  /\ received_total < MaxReceived
  /\ CommitBounded(IngestMessage(Cur, m, now))
  /\ UNCHANGED <<started, now>>

(* the dispatch of broadcaster() on the event just dequeued *)
ApplyEvent(S, event, t) ==
  CASE event.type \in {"device_name", "device_role"} ->
         [raised |-> FALSE] @@ ApplyNameRole(S, event)
    [] event.type = "device_seen" -> [raised |-> FALSE] @@ ApplySeen(S, event, t)
    [] event.type = "device_remove" -> [raised |-> FALSE] @@ ApplyRemove(S, event)
    [] event.type = "route" -> ApplyRoute(S, event, t)
    [] OTHER -> [raised |-> FALSE] @@ ApplyDevice(S, event, t)

(* broadcaster(): an exception outside the try blocks ends the task; else  *)
(* the frames of the event go to the clients                               *)
BroadcasterApplied(res) ==
  IF res.raised THEN [res.S EXCEPT !.b_pc = "crashed"]
  ELSE BroadcasterLoops(res.S, res.groups)

(* broadcaster(): "event = await update_queue.get()" returns and the event *)
(* is applied, up to the first send that suspends.                         *)
BroadcasterGet ==
  /\ started
  /\ b_pc = "get"
  /\ update_queue # << >>
  /\ Commit(BroadcasterApplied(
              ApplyEvent([Cur EXCEPT !.update_queue = Tail(update_queue),
                                     !.b_event = Head(update_queue)],
                         Head(update_queue), now)))
  /\ UNCHANGED <<started, now>>

(* broadcaster(): a client send returns or raises *)
BroadcasterSend ==
  /\ b_pc = "send"
  /\ \E fails \in BOOLEAN :
       LET L == LoopStep(b_loop, fails)
       IN IF L.todo = << >>
            THEN Commit(BroadcasterLoops(DiscardDead(Cur, L), b_more))
            ELSE Commit([Cur EXCEPT !.b_loop = L])
  /\ UNCHANGED <<started, now>>

(* reaper(): the sleep ends and a tick starts *)
ReaperWake ==
  /\ started
  /\ r_pc = "sleep"
  /\ Commit(ReaperTick(Cur, now))
  /\ UNCHANGED <<started, now>>

(* reaper(): a client send returns or raises *)
ReaperSend ==
  /\ r_pc # "sleep"
  /\ \E fails \in BOOLEAN :
       LET L == LoopStep(r_loop, fails)
       IN IF L.todo = << >>
            THEN Commit(ReaperResume(DiscardDead(Cur, L), now))
            ELSE Commit([Cur EXCEPT !.r_loop = L])
  /\ UNCHANGED <<started, now>>

(* routes.websocket.ws_endpoint: a client is accepted and added *)
WsConnect(ws) ==
  /\ started
  /\ ws \notin clients
  /\ Commit([Cur EXCEPT !.clients = clients \cup {ws}])
  /\ UNCHANGED <<started, now>>

(* routes.websocket.ws_endpoint: the receive loop ends, finally: discard *)
WsDisconnect(ws) ==
  /\ ws \in clients
  /\ Commit([Cur EXCEPT !.clients = clients \ {ws}])
  /\ UNCHANGED <<started, now>>

(* state_saver(): the sleep ends; a dirty state is written to the tmp file *)
SaverSave ==
  /\ started
  /\ s_pc = "sleep"
  /\ \E outcome \in SaveOutcomes : Commit(SaverWrite(Cur, outcome))
  /\ UNCHANGED <<started, now>>

(* state_saver(): the tmp file is renamed over the state file *)
SaverRename ==
  /\ s_pc = "written"
  /\ \E raises \in BOOLEAN : Commit(SaverReplaced(Cur, raises))
  /\ UNCHANGED <<started, now>>

(* state_saver(): the dirty flag is cleared *)
SaverClear ==
  /\ s_pc = "replaced"
  /\ Commit(SaverCleared(Cur))
  /\ UNCHANGED <<started, now>>

----------------------------------------------------------------------------
(* Inputs of the device pipeline: three devices, two of which share the    *)
(* two-hex prefix AB                                                       *)

DevA == <<"A", "B", "1">>
DevB == <<"a", "b", "2">>
DevC == <<"C", "D", "3">>

(* a packet on DevA's topic decoded to an advert of DevA with a location *)
MsgAdvert(dev, lat, lon) ==
  [BaseMsg EXCEPT !.topic_dev = dev, !.topic_last = <<"p">>,
                  !.topic_suffix = "packets", !.blob = TRUE, !.dec_ok = TRUE,
                  !.dec_has_loc = TRUE, !.dec_lat = lat, !.dec_lon = lon,
                  !.dec_pubkey = dev]

(* a JSON payload with coordinates, published on a topic the direct-       *)
(* coordinate regex matches                                                *)
MsgDirect(dev, lat, lon, ts) ==
  [BaseMsg EXCEPT !.topic_dev = dev, !.topic_last = <<"p">>,
                  !.topic_suffix = "other", !.topic_matches = TRUE,
                  !.obj_has_latlon = TRUE, !.obj_lat = lat, !.obj_lon = lon,
                  !.obj_ts = ts]

(* a JSON status payload with a name and a role *)
MsgStatus(dev, name, role) ==
  [BaseMsg EXCEPT !.topic_dev = dev, !.topic_last = <<"s">>,
                  !.topic_suffix = "status", !.obj_name = name, !.obj_role = role]

DeviceMsgs ==
  { MsgAdvert(DevA, 300, 0),
    MsgAdvert(DevA, 4, 0),
    MsgAdvert(DevB, 900, 0),
    [MsgDirect(DevA, 0, 400, 1) EXCEPT !.obj_role = "repeater"],
    MsgStatus(DevA, "alpha", "companion") }

SavedDevice(lat, lon, ts) == [lat |-> lat, lon |-> lon, ts |-> ts, name |-> "", role |-> ""]

(* a state file written by an earlier run: DevB with a trail of three      *)
(* points, DevC saved at the zero sentinel                                 *)
SavedState ==
  [exists |-> TRUE,
   devices |-> (DevB :> SavedDevice(0, 300, 1)) @@ (DevC :> SavedDevice(0, 0, 1)),
   trails |-> (DevB :> << <<0, 100, 1>>, <<0, 200, 1>>, <<0, 300, 1>> >>)
              @@ (DevC :> << <<0, 0, 1>> >>),
   seen_devices |-> (DevB :> 1),
   device_names |-> (DevB :> "bravo"),
   device_roles |-> (DevB :> "room"),
   device_role_sources |-> (DevB :> "explicit")]

StateFiles == {NoStateFile, SavedState}

Clients1 == {"c1"}

Next ==
  \/ \E f \in StateFiles : Startup(f, EmptyMap, << >>)
  \/ Tick
  \/ \E m \in DeviceMsgs : OnMessage(m)
  \/ BroadcasterGet
  \/ BroadcasterSend
  \/ ReaperWake
  \/ ReaperSend
  \/ \E ws \in Clients1 : WsConnect(ws)
  \/ \E ws \in Clients1 : WsDisconnect(ws)

Spec == Init /\ [][Next]_vars

----------------------------------------------------------------------------
(* Properties of the device pipeline *)

(* C1: every entry of the device map has coordinates that are not the zero *)
(* sentinel (|lat| < 1e-6 and |lon| < 1e-6) and that lie within the map    *)
(* radius, whatever messages were ingested, events applied, reaper ticks   *)
(* run or state file loaded.                                               *)
DevicesNonZeroInRadius ==
  \A d \in DOMAIN devices :
    /\ ~CoordsAreZero(devices[d].lat, devices[d].lon)
    /\ WithinMapRadius(devices[d].lat, devices[d].lon)

(* a device was inserted by the broadcaster from an ingested position *)
DeviceInserted ==
  /\ DevA \in DOMAIN devices
  /\ received_total > 0

(* C4: whenever the broadcaster or the reaper is suspended (and so at      *)
(* every state of the model, whose steps end at suspension points), a      *)
(* two-hex prefix is mapped by the hash-to-device map if and only if       *)
(* exactly one device id in the device map has that prefix, and it is      *)
(* mapped to that device.                                                  *)
HashMapConsistent ==
  LET prefixes == ({NodeHashFromDeviceId(d) : d \in DOMAIN devices} \ {NoId})
                    \cup DOMAIN node_hash_to_device
      owners(h) == {d \in DOMAIN devices : NodeHashFromDeviceId(d) = h}
  IN \A h \in prefixes :
       /\ (h \in DOMAIN node_hash_to_device) <=> (Cardinality(owners(h)) = 1)
       /\ h \in DOMAIN node_hash_to_device => node_hash_to_device[h] \in owners(h)

(* two devices share a prefix while the broadcaster is suspended in a send *)
HashCollisionAtSend ==
  /\ b_pc = "send"
  /\ DevA \in DOMAIN devices
  /\ DevB \in DOMAIN devices
  /\ NodeHashFromDeviceId(DevA) = NodeHashFromDeviceId(DevB)
  /\ NodeHashFromDeviceId(DevA) \notin DOMAIN node_hash_to_device

(* C5: every trail holds at most TRAIL_LEN entries and every entry lies    *)
(* within the map radius, also right after the state file was loaded; with *)
(* a trail length of 0 the trail map is empty.                             *)
TrailsBounded ==
  /\ \A d \in DOMAIN trails :
       /\ Len(trails[d]) <= TRAIL_LEN
       /\ \A i \in 1..Len(trails[d]) :
            WithinMapRadius(trails[d][i][1], trails[d][i][2])
  /\ TRAIL_LEN = 0 => DOMAIN trails = {}

(* C6: the timestamps along every trail are non-decreasing, also when the  *)
(* timestamp of an update was taken from the payload.                      *)
TrailsTimeOrdered ==
  \A d \in DOMAIN trails :
    \A i, j \in 1..Len(trails[d]) :
      i < j => trails[d][i][3] <= trails[d][j][3]

IsPrefix(s, t) == Len(s) <= Len(t) /\ SubSeq(t, 1, Len(s)) = s

(* C7: the broadcaster applies the events in exactly the order in which    *)
(* they were enqueued: a step leaves the queue alone, or the ingest        *)
(* callback appends behind what is queued, or the broadcaster, with all    *)
(* frames of its previous event sent, takes the head of the queue as its   *)
(* next event.                                                             *)
EventsAppliedInEnqueueOrder ==
  [][ \/ update_queue' = update_queue
      \/ /\ received_total' # received_total
         /\ IsPrefix(update_queue, update_queue')
      \/ /\ received_total' = received_total
         /\ b_pc = "get"
         /\ update_queue # << >>
         /\ update_queue' = Tail(update_queue)
         /\ b_event' = Head(update_queue) ]_vars

(* the broadcaster is sending the frames of one event while a later event  *)
(* of another kind waits in the queue                                      *)
EventWaitsBehindSend ==
  /\ b_pc = "send"
  /\ update_queue # << >>
  /\ Head(update_queue).type # b_event.type

(* C8: once the queue is drained, the role of a device is the role given   *)
(* by the last ingested message that carried a role hint for that device;  *)
(* a position event enqueued earlier with an older role does not override  *)
(* a role ingested later.                                                  *)
RoleIsLastHint ==
  (update_queue = << >> /\ b_pc = "get") =>
    \A d \in DOMAIN devices \cap DOMAIN role_hints :
      devices[d].role = role_hints[d]

(* C9: the ingest callback leaves the entries of the device map, the       *)
(* trails, the routes and the route history as they are: it writes no      *)
(* field of a device itself.                                               *)
IngestLeavesMapsUnchanged ==
  [][ received_total' # received_total =>
        /\ devices' = devices
        /\ trails' = trails
        /\ routes' = routes
        /\ route_history_segments' = route_history_segments
        /\ route_history_edges' = route_history_edges ]_vars

----------------------------------------------------------------------------
(* The send loops with two clients *)

Clients2 == {"c1", "c2"}

SendMsgs == {MsgAdvert(DevA, 300, 0)}

NextSend ==
  \/ Startup(SavedState, EmptyMap, << >>)
  \/ Tick
  \/ \E m \in SendMsgs : OnMessage(m)
  \/ BroadcasterGet
  \/ BroadcasterSend
  \/ ReaperWake
  \/ ReaperSend
  \/ \E ws \in Clients2 : WsConnect(ws)
  \/ \E ws \in Clients2 : WsDisconnect(ws)

SendSpec == Init /\ [][NextSend]_vars

(* a loop in progress: the clients of the snapshot before the one being    *)
(* sent to were all attempted, each once, and are in ok or in dead         *)
SendLoopSound(L) ==
  LET k == Len(L.snap) - Len(L.todo)
  IN /\ k >= 0
     /\ L.todo = SubSeq(L.snap, k + 1, Len(L.snap))
     /\ Len(L.dead) = Cardinality(Range(L.dead))
     /\ Range(L.dead) \cup L.ok = Range(SubSeq(L.snap, 1, k))
     /\ Range(L.dead) \cap L.ok = {}

(* a step in which a send loop of the broadcaster or of the reaper ends *)
BroadcasterLoopEnds ==
  /\ b_pc = "send"
  /\ <<b_pc, b_loop, b_more>>' # <<b_pc, b_loop, b_more>>
  /\ ~(b_pc' = "send" /\ b_more' = b_more)

ReaperLoopEnds ==
  /\ r_pc # "sleep"
  /\ r_pc' # r_pc

(* C10: in every send loop of the broadcaster and of the reaper, a client  *)
(* whose send raises is removed from the client set and is not sent to     *)
(* again in that loop, a client whose sends return is kept, and the        *)
(* clients after a failing one are still sent the frame: when the loop     *)
(* ends every client of its snapshot was attempted once, and exactly the   *)
(* failed ones are discarded.                                              *)
SendsSettleClients ==
  [][ /\ b_pc' = "send" => SendLoopSound(b_loop')
      /\ r_pc' # "sleep" => SendLoopSound(r_loop')
      /\ BroadcasterLoopEnds \/ ReaperLoopEnds =>
           /\ SendLoopSound(done_loop')
           /\ done_loop'.todo = << >>
           /\ done_loop'.snap = IF BroadcasterLoopEnds THEN b_loop.snap ELSE r_loop.snap
           /\ clients' = clients \ Range(done_loop'.dead)
           /\ done_loop'.ok \cap clients \subseteq clients' ]_vars

(* a loop over two clients ended in which the send to the first raised and *)
(* the send to the second returned                                         *)
SecondSentAfterFirstFailed ==
  /\ Len(done_loop.snap) = 2
  /\ done_loop.dead = <<done_loop.snap[1]>>
  /\ done_loop.ok = {done_loop.snap[2]}
  /\ done_loop.snap[2] \in clients
  /\ done_loop.snap[1] \notin clients

----------------------------------------------------------------------------
(* Inputs of the route pipeline: DevA just inside the map radius, at a     *)
(* point whose rounding to six decimals lies outside of it, and DevC       *)

HashA == <<"a", "b">>
HashC == <<"C", "D">>

SavedMesh ==
  [exists |-> TRUE,
   devices |-> (DevA :> SavedDevice(496, 0, 1)) @@ (DevC :> SavedDevice(300, 0, 1)),
   trails |-> EmptyMap,
   seen_devices |-> (DevA :> 1) @@ (DevC :> 1),
   device_names |-> EmptyMap,
   device_roles |-> EmptyMap,
   device_role_sources |-> EmptyMap]

(* a packet received by dev whose decoded path is hashes *)
MsgPath(dev, hashes, payload_type, hash) ==
  [BaseMsg EXCEPT !.topic_dev = dev, !.topic_last = <<"p">>,
                  !.topic_suffix = "packets", !.blob = TRUE, !.dec_ok = TRUE,
                  !.obj_direction = "rx", !.dec_pathHashes = hashes,
                  !.dec_payloadType = payload_type, !.dec_routeType = 1,
                  !.dec_messageHash = hash]

(* a packet without a path received by dev *)
MsgRx(dev, payload_type, hash) == MsgPath(dev, << >>, payload_type, hash)

RouteMsgs ==
  { MsgPath(DevC, <<HashA, HashC>>, 3, "h1"),
    MsgRx(DevA, 3, "h2"),
    MsgRx(DevC, 3, "h2"),
    MsgAdvert(DevC, 4, 0) }

(* a journal line written by an earlier run *)
JournalLine(ts, a, b) ==
  [ts |-> ts, a |-> FloatPoint(a), b |-> FloatPoint(b), a_id |-> NoId, b_id |-> NoId,
   message_hash |-> "h0", route_mode |-> "path"]

Journals == { << >>, <<JournalLine(1, <<0, 400>>, <<300, 0>>)>> }

NextRoute ==
  \/ \E j \in Journals : Startup(SavedMesh, EmptyMap, j)
  \/ Tick
  \/ \E m \in RouteMsgs : OnMessage(m)
  \/ BroadcasterGet
  \/ BroadcasterSend
  \/ ReaperWake
  \/ ReaperSend
  \/ \E ws \in Clients1 : WsConnect(ws)
  \/ \E ws \in Clients1 : WsDisconnect(ws)

RouteSpec == Init /\ [][NextRoute]_vars

(* C2: every route of the route map has at least two points, all of them   *)
(* within the map radius and none at the zero sentinel, and expires at its *)
(* timestamp plus the route TTL.                                           *)
RoutesWellFormed ==
  \A id \in DOMAIN routes :
    LET route == routes[id]
    IN /\ Len(route.points) >= 2
       /\ \A i \in 1..Len(route.points) :
            /\ WithinMapRadius(route.points[i][1], route.points[i][2])
            /\ ~CoordsAreZero(route.points[i][1], route.points[i][2])
       /\ route.expires_at = route.ts + ROUTE_TTL_SECONDS

(* the broadcaster has applied a route event whose receiver sat at the     *)
(* zero sentinel, and the route map holds a route                          *)
RouteEventNamesZeroDevice ==
  /\ routes # EmptyMap
  /\ b_event.type = "route"
  /\ b_event.receiver_id = DevC
  /\ DevC \in DOMAIN devices
  /\ CoordsAreZero(devices[DevC].lat, devices[DevC].lon)

(* C3: the count of every history edge is the number of segments of the    *)
(* deque with that edge's canonical key, and no edge has a count of 0,     *)
(* after any sequence of journal load, recordings and time-based or        *)
(* size-forced prunes.                                                     *)
HistoryCountsMatch ==
  \A k \in DOMAIN route_history_edges :
    LET n == Cardinality({i \in 1..Len(route_history_segments) :
                            HistoryEdgeKey(route_history_segments[i].a,
                                           route_history_segments[i].b).key = k})
    IN /\ route_history_edges[k].count = n
       /\ route_history_edges[k].count # 0

----------------------------------------------------------------------------
(* Inputs of the route-event rule: one packet, over every combination of   *)
(* path hashes, payload type, message hash, direction, topic suffix,       *)
(* origin and receiver                                                     *)

MaxIngest == 1

IngestMsg(hashes, payload_type, hash, direction, suffix, origin, receiver) ==
  [BaseMsg EXCEPT !.topic_dev = receiver, !.topic_last = <<"p">>,
                  !.topic_suffix = suffix, !.blob = TRUE, !.dec_ok = TRUE,
                  !.obj_direction = direction, !.obj_origin_id = origin,
                  !.dec_pathHashes = hashes, !.dec_payloadType = payload_type,
                  !.dec_routeType = 1, !.dec_messageHash = hash]

IngestMsgs ==
  { IngestMsg(hashes, payload_type, hash, direction, suffix, origin, receiver) :
      hashes \in { << >>, <<HashA>> }, payload_type \in {3, 4},
      hash \in {"", "h1"}, direction \in {"rx", "tx"},
      suffix \in {"packets", "other"}, origin \in {NoId, DevA, DevC},
      receiver \in {NoId, DevC} }

NextIngest ==
  \/ Startup(SavedMesh, EmptyMap, << >>)
  \/ Tick
  \/ \E m \in IngestMsgs : received_total < MaxIngest /\ OnMessage(m)
  \/ BroadcasterGet
  \/ BroadcasterSend
  \/ ReaperWake
  \/ ReaperSend
  \/ \E ws \in Clients1 : WsConnect(ws)
  \/ \E ws \in Clients1 : WsDisconnect(ws)

IngestSpec == Init /\ [][NextIngest]_vars

(* the routing fields on_message works out for the message m *)
RoutedFields(m) ==
  LET debug == IngestRadiusFilter(IngestZeroFilter(TryParsePayload(m, now)))
  IN IngestRouting(Cur, m, debug,
                   IF debug.origin_id # NoId THEN debug.origin_id ELSE m.topic_dev,
                   now)

(* the events a step of on_message put on the queue *)
EventsAdded == SubSeq(update_queue', Len(update_queue) + 1, Len(update_queue'))

RouteEventsAdded == SelectSeq(EventsAdded, LAMBDA e : e.type = "route")

PathWanted(r) ==
  r.route_hashes # << >> /\ r.payload_type \in ROUTE_PAYLOAD_TYPES_SET

FanoutWanted(r, m) ==
  /\ r.message_hash # "" /\ r.route_origin_id # NoId /\ r.receiver_id # NoId
  /\ r.direction_value = "rx" /\ m.topic_suffix = "packets"

DirectWanted(r, m) ==
  /\ r.direction_value = "rx" /\ m.topic_suffix = "packets"
  /\ r.receiver_id # NoId /\ r.route_origin_id # NoId
  /\ r.receiver_id # r.route_origin_id
  /\ r.payload_type \in ROUTE_PAYLOAD_TYPES_SET

(* the mode a route event was emitted in *)
EmittedMode(e) ==
  IF e.route_mode = "" /\ e.path_hashes # << >> THEN "path" ELSE e.route_mode

(* C11: for every broker message, on_message puts at most one route event  *)
(* on the queue: a path event if the message has route hashes and a route  *)
(* payload type; otherwise a fanout event if hash, origin and receiver are *)
(* known on an rx /packets message; otherwise a direct event if the direct *)
(* conditions hold; otherwise none.                                        *)
OneRouteEventByPrecedence ==
  [][ received_total' # received_total =>
        \A m \in IngestMsgs :
          OnMessage(m) =>
            LET r == RoutedFields(m)
                wanted == IF PathWanted(r) THEN "path"
                          ELSE IF FanoutWanted(r, m) THEN "fanout"
                          ELSE IF DirectWanted(r, m) THEN "direct"
                          ELSE "none"
            IN /\ Len(RouteEventsAdded) <= 1
               /\ (wanted = "none") <=> (RouteEventsAdded = << >>)
               /\ RouteEventsAdded # << >> =>
                    EmittedMode(RouteEventsAdded[1]) = wanted ]_vars

(* a message for which the path, the fanout and the direct conditions all  *)
(* hold was ingested, and the one route event on the queue is a path event *)
PathEventWhereAllModesApply ==
  /\ received_total = 1
  /\ Len(update_queue) = 1
  /\ update_queue[1].type = "route"
  /\ update_queue[1].path_hashes = <<HashA>>
  /\ update_queue[1].route_mode = ""
  /\ update_queue[1].message_hash = "h1"
  /\ update_queue[1].origin_id = DevA
  /\ update_queue[1].receiver_id = DevC
  /\ update_queue[1].payload_type = 3

----------------------------------------------------------------------------
(* Inputs of the route scenarios: four known devices, DevA and DevB with   *)
(* the same prefix, and at most MaxMesh packets                            *)

MaxMesh == 2

DevE == <<"E", "F", "5">>

SavedQuad ==
  [exists |-> TRUE,
   devices |-> (DevA :> SavedDevice(300, 0, 1)) @@ (DevB :> SavedDevice(0, 300, 1))
               @@ (DevC :> SavedDevice(0, 400, 1)) @@ (DevE :> SavedDevice(-300, 0, 1)),
   trails |-> EmptyMap,
   seen_devices |-> (DevA :> 1) @@ (DevB :> 1) @@ (DevC :> 1) @@ (DevE :> 1),
   device_names |-> EmptyMap,
   device_roles |-> EmptyMap,
   device_role_sources |-> EmptyMap]

(* a packet sent by dev, seen on dev's own topic *)
MsgTx(dev, payload_type, hash) ==
  [MsgRx(dev, payload_type, hash) EXCEPT !.obj_direction = "tx"]

MeshMsgs ==
  { [MsgPath(DevE, <<HashC>>, 3, "h1") EXCEPT !.obj_origin_id = DevA],
    [MsgPath(DevE, <<HashA>>, 3, "h3") EXCEPT !.obj_origin_id = DevC],
    MsgTx(DevA, 4, "h2"),
    MsgRx(DevE, 4, "h2") }

NextMesh ==
  \/ Startup(SavedQuad, EmptyMap, << >>)
  \/ Tick
  \/ \E m \in MeshMsgs : received_total < MaxMesh /\ OnMessage(m)
  \/ BroadcasterGet
  \/ BroadcasterSend
  \/ ReaperWake
  \/ ReaperSend
  \/ \E ws \in Clients1 : WsConnect(ws)
  \/ \E ws \in Clients1 : WsDisconnect(ws)

MeshSpec == Init /\ [][NextMesh]_vars

----------------------------------------------------------------------------
(* Properties of the route scenarios *)

(* a step in which the broadcaster takes the event at the head of the      *)
(* queue and applies it                                                    *)
BroadcasterTakes ==
  b_pc = "get" /\ Len(update_queue') < Len(update_queue)

Coords(d) == <<devices[d].lat, devices[d].lon>>

ValidCoords(p) == ~CoordsAreZero(p[1], p[2]) /\ WithinMapRadius(p[1], p[2])

(* the known devices whose id starts with the path hash h *)
OwnersOf(h) ==
  {d \in DOMAIN devices : NodeHashFromDeviceId(d) = NormalizeNodeHash(h)}

(* origin, the devices of the path hashes in path order, receiver *)
PathIds(e) ==
  <<e.origin_id>>
  \o [i \in 1..Len(e.path_hashes) |-> CHOOSE d \in OwnersOf(e.path_hashes[i]) : TRUE]
  \o <<e.receiver_id>>

(* the canonical history-edge key of the segment between two route points *)
SegmentKey(a, b) ==
  HistoryEdgeKey(NormalizeHistoryPoint(FloatPoint(a)),
                 NormalizeHistoryPoint(FloatPoint(b))).key

(* a path-mode route event within the path limit whose origin and receiver *)
(* are known, whose path hashes each are the prefix of exactly one known   *)
(* device, all these devices having pairwise distinct prefixes and         *)
(* pairwise distinct valid coordinates, with a payload type the history    *)
(* records                                                                 *)
PathCase(e) ==
  /\ e.type = "route" /\ e.route_mode = "" /\ e.path_hashes # << >>
  /\ Len(e.path_hashes) <= ROUTE_PATH_MAX_LEN
  /\ {e.origin_id, e.receiver_id} \subseteq DOMAIN devices
  /\ \A i \in 1..Len(e.path_hashes) : Cardinality(OwnersOf(e.path_hashes[i])) = 1
  /\ HistoryPayloadAllowed(e.payload_type)
  /\ LET ids == PathIds(e)
     IN /\ \A i \in 1..Len(ids) : ValidCoords(Coords(ids[i]))
        /\ \A i, j \in 1..Len(ids) :
             i < j => /\ NodeHashFromDeviceId(ids[i]) # NodeHashFromDeviceId(ids[j])
                      /\ Coords(ids[i]) # Coords(ids[j])

FanoutId(hash, receiver) == [NoRouteId EXCEPT !.hash = hash, !.b = receiver]

(* a tx packet with a message hash, seen on the sender's own topic *)
TxCase(m) ==
  /\ m.obj_direction = "tx" /\ m.dec_ok /\ m.dec_messageHash # ""
  /\ m.topic_dev # NoId /\ m.obj_origin_id = NoId

(* an rx packet on a /packets topic with a message hash and no path, which *)
(* names no origin itself, while the message-origin cache holds the sender *)
(* of the hash, a device other than the receiver                           *)
FanoutCase(m) ==
  /\ m.obj_direction = "rx" /\ m.topic_suffix = "packets" /\ m.topic_dev # NoId
  /\ m.dec_ok /\ m.dec_messageHash # "" /\ RoutedFields(m).route_hashes = << >>
  /\ m.dec_pubkey = NoId
  /\ m.dec_messageHash \in DOMAIN message_origins
  /\ message_origins[m.dec_messageHash].origin_id \notin {NoId, m.topic_dev}

(* a fanout event whose origin and receiver are known devices at distinct  *)
(* valid coordinates                                                       *)
FanoutEventCase(e) ==
  /\ e.type = "route" /\ e.route_mode = "fanout" /\ e.path_hashes = << >>
  /\ {e.origin_id, e.receiver_id} \subseteq DOMAIN devices
  /\ e.origin_id # e.receiver_id
  /\ ValidCoords(Coords(e.origin_id)) /\ ValidCoords(Coords(e.receiver_id))
  /\ Coords(e.origin_id) # Coords(e.receiver_id)

(* C13: a tx packet with hash H on TX's topic records TX as the origin of  *)
(* H in the message-origin cache; while that entry is in the cache, an rx  *)
(* packet with hash H and no path on RX's /packets topic (RX other than    *)
(* TX) makes on_message enqueue one fanout event with id "H-RX", origin TX *)
(* and receiver RX; and the broadcaster, applying such an event with TX    *)
(* and RX known, inserts the route "H-RX" with mode "fanout" and points    *)
(* TX, RX and sends its route frame to the connected clients.              *)
FanoutRouteEmitted ==
  [][ /\ received_total' # received_total =>
           \A m \in MeshMsgs :
             OnMessage(m) =>
               /\ TxCase(m) =>
                    /\ m.dec_messageHash \in DOMAIN message_origins'
                    /\ message_origins'[m.dec_messageHash].origin_id = m.topic_dev
               /\ FanoutCase(m) =>
                    /\ Len(RouteEventsAdded) = 1
                    /\ RouteEventsAdded[1].route_mode = "fanout"
                    /\ RouteEventsAdded[1].route_id
                         = FanoutId(m.dec_messageHash, m.topic_dev)
                    /\ RouteEventsAdded[1].origin_id
                         = message_origins[m.dec_messageHash].origin_id
                    /\ RouteEventsAdded[1].receiver_id = m.topic_dev
      /\ BroadcasterTakes /\ FanoutEventCase(Head(update_queue)) =>
           LET e == Head(update_queue)
           IN /\ e.route_id \in DOMAIN routes'
              /\ routes'[e.route_id].id = e.route_id
              /\ routes'[e.route_id].route_mode = "fanout"
              /\ routes'[e.route_id].points
                   = <<Coords(e.origin_id), Coords(e.receiver_id)>>
              /\ clients # {} =>
                   /\ b_pc' = "send"
                   /\ b_loop'.group
                        = <<[type |-> "route", route |-> routes'[e.route_id]]>> ]_vars

(* after the tx packet h2 of DevA and the rx packet h2 on DevE's topic,    *)
(* the route "h2-DevE" from DevA to DevE is in the route map               *)
FanoutRouteInMap ==
  /\ received_total = 2
  /\ FanoutId("h2", DevE) \in DOMAIN routes
  /\ routes[FanoutId("h2", DevE)].route_mode = "fanout"
  /\ routes[FanoutId("h2", DevE)].point_ids = <<DevA, DevE>>

(* an rx packet on a /packets topic that names a known origin and has a    *)
(* known, different receiver, a route payload type and no path hashes,     *)
(* with no tx packet of its hash in the message-origin cache               *)
DirectCase(m) ==
  /\ m.obj_direction = "rx" /\ m.topic_suffix = "packets" /\ m.dec_ok
  /\ m.obj_origin_id # NoId /\ m.topic_dev # NoId /\ m.obj_origin_id # m.topic_dev
  /\ {m.obj_origin_id, m.topic_dev} \subseteq DOMAIN devices
  /\ m.dec_payloadType \in ROUTE_PAYLOAD_TYPES_SET
  /\ RoutedFields(m).route_hashes = << >>
  /\ \/ m.dec_messageHash \notin DOMAIN message_origins
     \/ message_origins[m.dec_messageHash].origin_id = NoId

(* C14: an rx packet on a /packets topic with a known origin, a known      *)
(* different receiver, a route payload type, no path hashes and no cached  *)
(* tx makes on_message enqueue one route event of mode "direct" whose id   *)
(* starts with "direct-", from the origin to the receiver, whether or not  *)
(* the packet carries a message hash.                                      *)
DirectRouteEmitted ==
  [][ received_total' # received_total =>
        \A m \in IngestMsgs :
          (OnMessage(m) /\ DirectCase(m)) =>
            /\ Len(RouteEventsAdded) = 1
            /\ RouteEventsAdded[1].route_mode = "direct"
            /\ RouteEventsAdded[1].route_id.prefix = "direct-"
            /\ RouteEventsAdded[1].origin_id = m.obj_origin_id
            /\ RouteEventsAdded[1].receiver_id = m.topic_dev ]_vars

----------------------------------------------------------------------------
(* The route scenarios with the scheduling the event loop gives the        *)
(* reaper: the clock advances, the sleep of reaper.py l.131 ends, and a    *)
(* send to a client returns or raises.                                     *)

(* the states in which a wake of the reaper changes the state: the enabling *)
(* condition of <<ReaperWake>>_vars                                        *)
ReaperWakeEnabled == started /\ r_pc = "sleep" /\ ReaperTick(Cur, now) # Cur

(* the enabling condition of <<ReaperSend>>_vars: every send moves r_loop *)
ReaperSendEnabled == r_pc # "sleep"

(* weak fairness of the clock, of the reaper's wake and of its sends; the  *)
(* last two are WF_vars(ReaperWake) and WF_vars(ReaperSend) written out    *)
(* with their enabling conditions as state predicates                      *)
FairMeshSpec ==
  /\ MeshSpec
  /\ WF_vars(Tick)
  /\ ([]<>~ReaperWakeEnabled \/ []<><<ReaperWake>>_vars)
  /\ ([]<>~ReaperSendEnabled \/ []<><<ReaperSend>>_vars)

(* the ids the routes of the scenario packets go by *)
MeshRouteIds == {RouteIdOfHash("h1"), RouteIdOfHash("h3"), FanoutId("h2", DevE)}

(* a step of the reaper that evaluates the expired-route list of l.85 *)
ReaperListsExpired ==
  /\ ReaperWake \/ ReaperSend
  /\ r_pc \in {"sleep", "stale", "bad"}
  /\ r_pc' \in {"expired", "history", "sleep"}

(* the step of the reaper that ends the route_remove sends of l.89-95 *)
ReaperEndsExpired ==
  ReaperSend /\ r_pc = "expired" /\ r_pc' # "expired"

(* the routes of the map that have expired at the time r_now' the tick read *)
ExpiredAtTick == {id \in DOMAIN routes : r_now' > routes[id].expires_at}

ExpiredRoutesLeaveInTick ==
  [][ /\ ReaperListsExpired =>
           /\ r_pc' = "expired" =>
                /\ clients' # {}
                /\ ExpiredAtTick \subseteq r_pending'
                /\ r_loop'.group = <<[type |-> "route_remove", route_ids |-> r_pending']>>
                /\ r_loop'.todo = SetToSeq(clients')
           /\ r_pc' # "expired" => ExpiredAtTick \cap DOMAIN routes' = {}
      /\ (r_pc = "expired" /\ r_pc' = "expired") => r_pending' = r_pending
      /\ ReaperEndsExpired => r_pending \cap DOMAIN routes' = {} ]_vars

RoutesEventuallyRemoved ==
  \A id \in MeshRouteIds :
    (id \in DOMAIN routes /\ routes[id].expires_at < MaxTime)
      ~> (id \notin DOMAIN routes \/ routes[id].expires_at >= MaxTime)

(* C15: every route that has expired at the time a reaper tick read at its *)
(* start is named in the tick's route_remove frame, which goes to every    *)
(* connected client, and is out of the route map when the sends of the     *)
(* frame are over (at once, with no client connected); and every route in  *)
(* the map is eventually removed, unless its expiry is renewed up to the   *)
(* last clock value.                                                       *)
ExpiredRoutesReaped ==
  ExpiredRoutesLeaveInTick /\ RoutesEventuallyRemoved

(* the reaper is sending the route_remove frame of the expired route h1 *)
ExpiredRouteBeingRemoved ==
  /\ r_pc = "expired"
  /\ RouteIdOfHash("h1") \in r_pending
  /\ RouteIdOfHash("h1") \in DOMAIN routes
  /\ r_now > routes[RouteIdOfHash("h1")].expires_at
  /\ r_loop.group[1].type = "route_remove"

(* the ids of the route map are those of the scenario *)
RouteIdsOfScenario == DOMAIN routes \subseteq MeshRouteIds

----------------------------------------------------------------------------
(* Properties of the radius filter *)

(* the position on_message parsed from m, before the radius filter *)
ParsedPosition(m) == IngestZeroFilter(TryParsePayload(m, now))

(* m carries a non-zero position outside the map radius *)
OutOfRadiusCase(m) ==
  /\ ParsedPosition(m).has_parsed
  /\ ~WithinMapRadius(ParsedPosition(m).parsed.lat, ParsedPosition(m).parsed.lon)

(* the position fields of the entry of device d, << >> if it has none *)
PositionOf(devs, d) ==
  IF d \in DOMAIN devs THEN <<devs[d].lat, devs[d].lon, devs[d].ts>> ELSE << >>

(* C16: a position update outside the map radius inserts no device and     *)
(* moves none: on_message enqueues no device event for it, leaves the      *)
(* position and the trail of the device as they are and enqueues a         *)
(* device_remove event for the device.  The broadcaster, applying a        *)
(* device_remove event, removes a device that is in the map together with  *)
(* its trail and its seen entries and sends a stale frame naming it to the *)
(* connected clients; for a device that is not in the map it changes no    *)
(* device and sends no frame.                                              *)
OutOfRadiusRemoves ==
  [][ /\ received_total' # received_total =>
           \A m \in DeviceMsgs :
             (OnMessage(m) /\ OutOfRadiusCase(m)) =>
               LET id == ParsedPosition(m).parsed.device_id
               IN /\ \A i \in 1..Len(EventsAdded) : EventsAdded[i].type # "device"
                  /\ \E i \in 1..Len(EventsAdded) :
                       /\ EventsAdded[i].type = "device_remove"
                       /\ EventsAdded[i].device_id = id
                  /\ DOMAIN devices' = DOMAIN devices
                  /\ PositionOf(devices', id) = PositionOf(devices, id)
                  /\ trails' = trails
      /\ (BroadcasterTakes /\ Head(update_queue).type = "device_remove") =>
           LET id == Head(update_queue).device_id
           IN IF id \in DOMAIN devices
                THEN /\ devices' = Del(devices, id)
                     /\ id \notin DOMAIN trails'
                     /\ id \notin DOMAIN seen_devices'
                     /\ id \notin DOMAIN mqtt_seen'
                     /\ IF clients # {}
                          THEN /\ b_pc' = "send"
                               /\ b_loop'.group = <<StaleFrame({id})>>
                               /\ b_loop'.todo = SetToSeq(clients)
                          ELSE b_pc' = "get"
                ELSE /\ devices' = devices
                     /\ b_pc' = "get"
                     /\ b_loop' = NoLoop ]_vars

(* the broadcaster is sending the stale frame of DevB, removed with its    *)
(* trail after its position outside the radius                             *)
OutOfRadiusDeviceRemoved ==
  /\ b_pc = "send"
  /\ b_event.type = "device_remove"
  /\ b_event.device_id = DevB
  /\ b_loop.group = <<StaleFrame({DevB})>>
  /\ DevB \notin DOMAIN devices
  /\ DevB \notin DOMAIN trails

----------------------------------------------------------------------------
(* Properties of colliding path hashes *)

(* the known devices with non-zero coordinates whose id starts with h *)
CandidatesOf(h) ==
  {d \in OwnersOf(h) : ~CoordsAreZero(devices[d].lat, devices[d].lon)}

(* the distance in time between the last-seen time of device d and ts *)
SeenDelta(d, ts) ==
  LET last_seen == IF Get(seen_devices, d, 0) # 0 THEN seen_devices[d] ELSE devices[d].ts
  IN IF last_seen >= ts THEN last_seen - ts ELSE ts - last_seen

(* the candidates of h last seen closest to ts *)
ClosestCandidates(h, ts) ==
  {d \in CandidatesOf(h) : \A d2 \in CandidatesOf(h) : SeenDelta(d, ts) <= SeenDelta(d2, ts)}

(* a path-mode route event with one path hash that two or more known       *)
(* devices with non-zero coordinates share, origin and receiver known      *)
CollisionCase(e) ==
  /\ e.type = "route" /\ e.route_mode = "" /\ Len(e.path_hashes) = 1
  /\ e.route_id = NoRouteId /\ e.message_hash # ""
  /\ {e.origin_id, e.receiver_id} \subseteq DOMAIN devices
  /\ ValidCoords(Coords(e.origin_id)) /\ ValidCoords(Coords(e.receiver_id))
  /\ Cardinality(CandidatesOf(e.path_hashes[1])) >= 2

(* C17: when the broadcaster applies a path event whose path hash is       *)
(* shared by two known devices, the route it inserts has as its hop the    *)
(* candidate with non-zero coordinates last seen closest to the time of    *)
(* the packet: the hop is in the polyline.                                 *)
CollidedHopResolved ==
  [][ (BroadcasterTakes /\ CollisionCase(Head(update_queue))) =>
        LET e == Head(update_queue)
            id == RouteIdOfHash(e.message_hash)
        IN /\ id \in DOMAIN routes'
           /\ \E k \in 1..Len(routes'[id].point_ids) :
                routes'[id].point_ids[k] \in ClosestCandidates(e.path_hashes[1], e.ts) ]_vars

----------------------------------------------------------------------------
(* Inputs of the persistence scenarios: a state file with DevA and DevC,   *)
(* a role-overrides file that names DevA, a role hint for DevA and a JSON  *)
(* position that names DevC in its device_id field, published with a role  *)
(* on a topic without a device id                                          *)

MaxPersist == 2

SavedRoles ==
  [exists |-> TRUE,
   devices |-> (DevA :> SavedDevice(300, 0, 1)) @@ (DevC :> SavedDevice(0, 400, 1)),
   trails |-> (DevA :> << <<300, 0, 1>> >>),
   seen_devices |-> (DevA :> 1) @@ (DevC :> 1),
   device_names |-> EmptyMap,
   device_roles |-> EmptyMap,
   device_role_sources |-> EmptyMap]

RoleOverrides == (DevA :> "repeater")

PersistMsgs ==
  { MsgStatus(DevA, "", "companion"),
    [MsgDirect(NoId, 0, 300, 1) EXCEPT !.obj_device_id = DevC, !.obj_role = "room"] }

PersistInit == InitState(OnDisk(SavedRoles, TRUE))

NextPersist ==
  \/ Startup(SavedRoles, RoleOverrides, << >>)
  \/ Tick
  \/ \E m \in PersistMsgs : received_total < MaxPersist /\ OnMessage(m)
  \/ BroadcasterGet
  \/ BroadcasterSend
  \/ ReaperWake
  \/ ReaperSend
  \/ SaverSave
  \/ SaverRename
  \/ SaverClear
  \/ \E ws \in Clients1 : WsConnect(ws)
  \/ \E ws \in Clients1 : WsDisconnect(ws)

PersistSpec == PersistInit /\ [][NextPersist]_vars

----------------------------------------------------------------------------
(* Properties of the state file *)

(* the devices load_state drops: zero or outside the radius *)
DroppedAtLoad(devs) ==
  {d \in DOMAIN devs : CoordsAreZero(devs[d].lat, devs[d].lon)
                       \/ ~WithinMapRadius(devs[d].lat, devs[d].lon)}

(* the trails left after the filter of load_state *)
TrailsAfterFilter(tr, dropped) ==
  [d \in {x \in (DOMAIN tr) \ dropped : CleanTrail(tr[x]) # << >>} |-> CleanTrail(tr[d])]

(* the entries of a map for the devices the overrides file does not name *)
NotOverridden(f) == Restrict(f, (DOMAIN f) \ (DOMAIN RoleOverrides))

(* the state L loaded from a file saved in the current state has the       *)
(* devices, trails and roles of the current state, but for those dropped   *)
SameAfterLoad(L, dropped) ==
  /\ NotOverridden(L.devices)
       = NotOverridden(Restrict(devices, (DOMAIN devices) \ dropped))
  /\ L.trails = TrailsAfterFilter(trails, dropped)
  /\ NotOverridden(L.device_roles) = NotOverridden(DelAll(device_roles, dropped))

(* C18: saving the state and loading it again gives the same devices, with *)
(* their roles, the same trails and the same role map, but for the entries *)
(* the radius and zero filters of the loader drop (the devices of the      *)
(* role-overrides file, whose role the loader sets, are left aside).       *)
SaveLoadRoundTrip ==
  started =>
    SameAfterLoad(LoadState(Cur, SerializeState(Cur), RoleOverrides),
                  DroppedAtLoad(devices))

(* a step of state_saver that ends a save without the rename: nothing to   *)
(* save, or makedirs, open, json.dump or os.replace raised                 *)
SaveGivenUp ==
  /\ s_pc \in {"sleep", "written"}
  /\ s_pc' = "sleep"
  /\ SaverSave \/ SaverRename

(* C19: the state file always holds a document written to its end.  It     *)
(* changes only by the rename of a tmp file that was written to its end;   *)
(* a save that fails leaves the state file as it was and the dirty flag as *)
(* it was; and the dirty flag is cleared only by the saver, after the      *)
(* rename, with the renamed file in place.                                 *)
StateFileAlwaysComplete ==
  /\ [](state_file.complete)
  /\ [][ /\ state_file' # state_file =>
              /\ s_pc = "written" /\ s_pc' = "replaced"
              /\ tmp_file.complete
              /\ state_file' = tmp_file
              /\ state_dirty' = state_dirty
         /\ SaveGivenUp =>
              /\ state_file' = state_file
              /\ state_dirty' = state_dirty
         /\ (state_dirty /\ ~state_dirty') =>
              /\ s_pc = "replaced" /\ s_pc' = "sleep"
              /\ state_file' = state_file ]_vars

(* a save has renamed its tmp file over the state file of the earlier run *)
(* and the flag is not yet cleared                                         *)
StateFileReplaced ==
  /\ s_pc = "replaced"
  /\ state_dirty
  /\ state_file.complete
  /\ state_file # OnDisk(SavedRoles, TRUE)
  /\ tmp_file = NoDisk

----------------------------------------------------------------------------
(* Properties of the role overrides *)

(* C20: a device the role-overrides file names has the role of the file in *)
(* the role map and in its device entry, with source "override", after the *)
(* load and after any role hint ingested later.                            *)
OverrideRoleKept ==
  started =>
    \A d \in DOMAIN RoleOverrides :
      /\ d \in DOMAIN device_roles
      /\ device_roles[d] = RoleOverrides[d]
      /\ Get(device_role_sources, d, "") = "override"
      /\ d \in DOMAIN devices => devices[d].role = RoleOverrides[d]

----------------------------------------------------------------------------
(* Properties of the history edges *)

(* the coordinates of the devices of the route scenarios *)
ScenarioPoints == {<<300, 0>>, <<0, 300>>, <<0, 400>>, <<-300, 0>>}

(* the edge map after the loop of _record_route_history ran for a route of *)
(* the points pts                                                          *)
EdgesRecorded(edges, pts, ts, sample) ==
  RecordLoop([edges |-> edges, new_entries |-> << >>, updated |-> {}],
             pts, << >>, 1, ts, sample).edges

(* the edge of key k in edges, or the edge the recording starts from *)
EdgeOrNew(edges, k) ==
  IF k \in DOMAIN edges THEN edges[k] ELSE [count |-> 0, recent |-> << >>]

NewestFirst(recent) ==
  \A i \in 1..(Len(recent) - 1) : recent[i].ts >= recent[i + 1].ts

(* the edge old after two recordings is the edge new *)
RecordedTwice(old, new, sample) ==
  /\ new.count = old.count + 2
  /\ Len(new.recent)
       = IF Len(old.recent) + 2 > HISTORY_EDGE_SAMPLE_LIMIT
           THEN HISTORY_EDGE_SAMPLE_LIMIT ELSE Len(old.recent) + 2
  /\ NewestFirst(new.recent)
  /\ (\A i \in 1..Len(old.recent) : old.recent[i].ts < sample.ts) =>
       \A i \in 1..Len(new.recent) : i <= 2 => new.recent[i] = sample

(* C21: recording the same segment twice, with no prune in between, raises *)
(* the count of its edge by exactly 2 and adds two samples to its recent   *)
(* list as far as the sample limit allows: the list grows by two up to the *)
(* limit, is ordered newest first, and starts with the two new samples     *)
(* where they are newer than the ones it held.                             *)
SegmentRecordedTwice ==
  \A a, b \in ScenarioPoints : \A ts \in 1..MaxTime :
    a # b =>
      RecordedTwice(
        EdgeOrNew(route_history_edges, SegmentKey(a, b)),
        EdgesRecorded(
          EdgesRecorded(route_history_edges, <<a, b>>, ts,
                        [ts |-> ts, message_hash |-> "h1", route_mode |-> "path"]),
          <<a, b>>, ts,
          [ts |-> ts, message_hash |-> "h1", route_mode |-> "path"])
            [SegmentKey(a, b)],
        [ts |-> ts, message_hash |-> "h1", route_mode |-> "path"])

(* the broadcaster recorded the segment from DevC to DevE twice: its edge  *)
(* counts 2 and holds two samples of the packet h1                         *)
EdgeCountsTwo ==
  \E k \in DOMAIN route_history_edges :
    /\ k = SegmentKey(<<0, 400>>, <<-300, 0>>)
    /\ route_history_edges[k].count = 2
    /\ Len(route_history_edges[k].recent) = 2
    /\ \A i \in 1..2 : route_history_edges[k].recent[i].message_hash = "h1"

(* coordinates a device can report, in and around the scenario: the zero  *)
(* pair is the only one _normalize_history_point gives no point for        *)
KeyCoords == {-300, -4, 0, 4, 300}

KeyPoints ==
  {p \in KeyCoords \X KeyCoords : NormalizeHistoryPoint(FloatPoint(p)) # NoPoint}

(* C22: the canonical key of a history edge is symmetric: for all          *)
(* endpoints a and b the key of (a, b) is the key of (b, a), so a segment  *)
(* travelled in either direction counts on the same edge.                  *)
HistoryEdgeKeySymmetric ==
  \A a, b \in KeyPoints :
    a # b =>
      /\ SegmentKey(a, b) = SegmentKey(b, a)
      /\ EdgesRecorded(
           EdgesRecorded(route_history_edges, <<a, b>>, now,
                         [ts |-> now, message_hash |-> "h1", route_mode |-> "path"]),
           <<b, a>>, now,
           [ts |-> now, message_hash |-> "h1", route_mode |-> "path"])
             [SegmentKey(a, b)].count
           = EdgeOrNew(route_history_edges, SegmentKey(a, b)).count + 2

----------------------------------------------------------------------------
(* Properties of the reaper's deletions *)

(* C23: the reaper deletes a device only if its latest position timestamp  *)
(* is older than the device TTL at the moment of the deletion: a device    *)
(* the broadcaster gave a fresh position while the reaper was sending the  *)
(* stale frame is not deleted.                                             *)
ReaperDeletesOnlyStaleDevices ==
  [][\A d \in DOMAIN devices :
       (d \notin DOMAIN devices' /\ (ReaperWake \/ ReaperSend)) =>
         now - devices[d].ts > DEVICE_TTL_SECONDS]_vars

(* The scenario of a packet heard twice and of a packet with three path    *)
(* hashes, one more than ROUTE_PATH_MAX_LEN, and of a JSON position out of *)
(* the map radius that names a role: the devices of the saved file         *)
(* reported positions stamped 2, so that at clock time 3 they are within   *)
(* the device TTL while a route inserted at 1 is expired.                  *)
SavedLate ==
  [SavedQuad EXCEPT !.devices = [d \in DOMAIN SavedQuad.devices |->
                                   [SavedQuad.devices[d] EXCEPT !.ts = 2]]]

MaxRace == 2

RaceMsgs ==
  { [MsgPath(DevE, <<HashC>>, 3, "h1") EXCEPT !.obj_origin_id = DevA],
    MsgPath(DevE, <<HashA, HashC, HashA>>, 3, "h4"),
    [MsgDirect(DevA, 900, 0, 1) EXCEPT !.obj_role = "room"] }

(* a journal of four segments, one more than ROUTE_HISTORY_MAX_SEGMENTS,   *)
(* each line marked by its message hash                                    *)
RaceJournal ==
  << [JournalLine(1, <<300, 0>>, <<0, 400>>) EXCEPT !.message_hash = "j1"],
     [JournalLine(1, <<0, 400>>, <<-300, 0>>) EXCEPT !.message_hash = "j2"],
     [JournalLine(1, <<300, 0>>, <<0, 400>>) EXCEPT !.message_hash = "j3"],
     [JournalLine(1, <<0, 400>>, <<-300, 0>>) EXCEPT !.message_hash = "j4"] >>

(* a journal whose second line is older than its first *)
SkewedJournal ==
  << [JournalLine(1, <<300, 0>>, <<0, 400>>) EXCEPT !.message_hash = "k1"],
     [JournalLine(0, <<0, 400>>, <<-300, 0>>) EXCEPT !.message_hash = "k2"] >>

RaceJournals == {<< >>, RaceJournal, SkewedJournal}

NextRace ==
  \/ \E journal \in RaceJournals : Startup(SavedLate, EmptyMap, journal)
  \/ Tick
  \/ \E m \in RaceMsgs : received_total < MaxRace /\ OnMessage(m)
  \/ BroadcasterGet
  \/ BroadcasterSend
  \/ ReaperWake
  \/ ReaperSend
  \/ \E ws \in Clients1 : WsConnect(ws)
  \/ \E ws \in Clients1 : WsDisconnect(ws)

RaceSpec == Init /\ [][NextRace]_vars

(* a route with a zero-coordinate point, which the reaper removes at any age *)
HasZeroPoint(route) ==
  \E i \in 1..Len(route.points) :
    CoordsAreZero(route.points[i][1], route.points[i][2])

(* C24: the reaper deletes a route only if it is expired at the moment of  *)
(* the deletion: a route the broadcaster inserted or replaced under the    *)
(* same id, with expires_at in the future, while the reaper was sending    *)
(* the route_remove frame stays in the route map.                          *)
ReaperDeletesOnlyExpiredRoutes ==
  [][\A id \in DOMAIN routes :
       (id \notin DOMAIN routes' /\ ~HasZeroPoint(routes[id])
          /\ (ReaperWake \/ ReaperSend)) =>
         now > routes[id].expires_at]_vars

----------------------------------------------------------------------------
(* Properties of the broadcaster's loop *)

(* a route event whose normalized path-hash list is over the limit *)
LongPathCase(e) ==
  /\ e.type = "route"
  /\ ROUTE_PATH_MAX_LEN > 0
  /\ Len(NormalizeHashes(e.path_hashes)) > ROUTE_PATH_MAX_LEN

(* C25: a route event whose normalized path-hash list is longer than the   *)
(* path limit is rejected: the broadcaster inserts no route, records no    *)
(* heat and no history, sends no frame, and goes on to take the next       *)
(* queued event.                                                           *)
LongPathRejected ==
  [][(update_queue # << >> /\ LongPathCase(Head(update_queue)) /\ BroadcasterGet) =>
       /\ routes' = routes
       /\ heat_events' = heat_events
       /\ route_history_edges' = route_history_edges
       /\ route_history_segments' = route_history_segments
       /\ b_loop' = b_loop
       /\ b_pc' = "get"]_vars

(* the enabling condition of <<BroadcasterGet>>_vars: taking an event      *)
(* shortens the queue                                                      *)
BroadcasterGetEnabled == started /\ b_pc = "get" /\ update_queue # << >>

(* the enabling condition of <<BroadcasterSend>>_vars: every send moves    *)
(* b_loop                                                                  *)
BroadcasterSendEnabled == b_pc = "send"

(* weak fairness of the broadcaster task: the event loop resumes it when   *)
(* the queue holds an event and when a send has returned; WF_vars of both  *)
(* actions written out with their enabling conditions as state predicates  *)
FairRaceSpec ==
  /\ RaceSpec
  /\ WF_vars(Tick)
  /\ ([]<>~BroadcasterGetEnabled \/ []<><<BroadcasterGet>>_vars)
  /\ ([]<>~BroadcasterSendEnabled \/ []<><<BroadcasterSend>>_vars)

(* C26: under fair scheduling every event placed on the queue is           *)
(* eventually dequeued and applied by the broadcaster: whatever events the *)
(* ingest callback has queued, the queue is drained again.                 *)
QueueEventuallyDrained ==
  (update_queue # << >>) ~> (update_queue = << >>)

----------------------------------------------------------------------------
(* Properties of the frames a connected client is sent *)

(* C27: the snapshot a client is sent at registration and the delta frames *)
(* sent to it afterwards account for every state change: a device the      *)
(* reaper deletes while the client is registered is named in a stale frame *)
(* sent to that client.                                                    *)
RemovalsSentToRegistered ==
  [][\A d \in DOMAIN devices :
       (d \notin DOMAIN devices' /\ (ReaperWake \/ ReaperSend)) =>
         \A ws \in clients : InSeq(ws, r_loop.snap)]_vars

----------------------------------------------------------------------------
(* Properties of the resolver's orientation *)

(* the normalized hash lists up to the path limit over the hashes hs *)
HashLists(hs) ==
  UNION {[1..n -> hs] : n \in 0..ROUTE_PATH_MAX_LEN}

(* the orientation as stated: reversed if the receiver hash is first and   *)
(* not last, else reversed if the origin hash is last and not first, else  *)
(* unchanged                                                               *)
OrientedAsStated(normalized, origin_hash, receiver_hash) ==
  LET n == Len(normalized)
  IN IF n = 0 THEN normalized
     ELSE IF receiver_hash # NoId /\ normalized[1] = receiver_hash
             /\ normalized[n] # receiver_hash
       THEN Reverse(normalized)
     ELSE IF origin_hash # NoId /\ normalized[n] = origin_hash
             /\ normalized[1] # origin_hash
       THEN Reverse(normalized)
     ELSE normalized

(* C28: the resolver orients the normalized hash list by the stated rule   *)
(* for every list, receiver and origin: reversed if the receiver hash is   *)
(* the first element and not the last; otherwise reversed if the origin    *)
(* hash is the last element and not the first, also when the receiver hash *)
(* occurs elsewhere in the list; otherwise unchanged.                      *)
OrientationAsStated ==
  \A origin_id, receiver_id \in DOMAIN devices \cup {NoId} :
    \A normalized \in HashLists({NodeHashFromDeviceId(d) : d \in DOMAIN devices}) :
      OrientHashes(normalized, origin_id, receiver_id)
        = OrientedAsStated(normalized,
                           NodeHashFromDeviceId(origin_id),
                           NodeHashFromDeviceId(receiver_id))

----------------------------------------------------------------------------
(* Properties of the events on_message enqueues *)

(* C29: on_message enqueues a fanout-mode route event only for a message   *)
(* that carries no path hashes and has a message hash, an origin, a        *)
(* receiver, direction rx and a /packets topic: a message that carries     *)
(* path hashes never produces a fanout event, whatever its payload type.   *)
FanoutOnlyWithoutHashes ==
  [][ received_total' # received_total =>
        \A m \in IngestMsgs :
          OnMessage(m) =>
            \A i \in 1..Len(RouteEventsAdded) :
              RouteEventsAdded[i].route_mode = "fanout" =>
                /\ RoutedFields(m).route_hashes = << >>
                /\ FanoutWanted(RoutedFields(m), m) ]_vars

(* the result on_message notes for the payload of m after its filters *)
FilteredResult(m) ==
  IngestRadiusFilter(IngestZeroFilter(TryParsePayload(m, now))).result

(* the position of m is rejected by policy: zero coordinates, out of the   *)
(* map radius, or direct coordinates blocked                               *)
PositionRejected(m) ==
  FilteredResult(m) \in {"direct_blocked", "direct_zero_coords",
                         "filtered_zero_coords", "filtered_radius"}

(* C30: for a message whose position is rejected by policy, on_message     *)
(* enqueues no route, device_name, device_role or device event: at most    *)
(* one device_remove event, and that only in the out-of-radius case.       *)
RejectedPositionEnqueuesNoHint ==
  [][ received_total' # received_total =>
        \A m \in RaceMsgs :
          (OnMessage(m) /\ PositionRejected(m)) =>
            /\ \A i \in 1..Len(EventsAdded) :
                 EventsAdded[i].type \notin {"route", "device_name", "device_role",
                                             "device"}
            /\ Len(SelectSeq(EventsAdded, LAMBDA e : e.type = "device_remove"))
                 <= IF FilteredResult(m) = "filtered_radius" THEN 1 ELSE 0 ]_vars

----------------------------------------------------------------------------
(* Properties of the snapshot *)

(* the routes of the snapshot ws_endpoint and /snapshot build in state S *)
SnapshotRoutes(S) == {S.routes[id] : id \in DOMAIN S.routes}

(* C31: every route of the snapshot a connecting client is sent is         *)
(* non-expired at the time the snapshot is built: its expires_at is not    *)
(* earlier than the clock.                                                 *)
SnapshotRoutesNotExpired ==
  [][\A ws \in Clients1 :
       WsConnect(ws) => \A r \in SnapshotRoutes(Cur) : r.expires_at >= now]_vars

----------------------------------------------------------------------------
(* Neighbor graph of the original application (app.py).  The graph maps a  *)
(* pair <<src, dst>> to its entry; its broadcaster builds the route as the *)
(* refactored one does and then records the neighbors.                     *)

NewNeighbor == [count |-> 0, last_seen |-> 0, manual |-> FALSE]

(* app._touch_neighbor *)
TouchNeighbor(edges, src_id, dst_id, ts, manual) ==
  IF src_id = NoId \/ dst_id = NoId \/ src_id = dst_id THEN edges
  ELSE LET entry == Get(edges, <<src_id, dst_id>>, NewNeighbor)
       IN Put(edges, <<src_id, dst_id>>,
              [count |-> IF manual THEN entry.count ELSE entry.count + 1,
               last_seen |-> Max(entry.last_seen, ts),
               manual |-> entry.manual \/ manual])

(* the loop recording each pair in the direction of travel only *)
RECURSIVE RecordNeighborsOneWay(_, _, _, _)
RecordNeighborsOneWay(edges, point_ids, idx, ts) ==
  IF Len(point_ids) < 2 \/ idx > Len(point_ids) - 1 THEN edges
  ELSE RecordNeighborsOneWay(
         TouchNeighbor(edges, point_ids[idx], point_ids[idx + 1], ts, FALSE),
         point_ids, idx + 1, ts)

(* app._record_neighbors: the loop from index idx on *)
RECURSIVE RecordNeighbors(_, _, _, _)
RecordNeighbors(edges, point_ids, idx, ts) ==
  IF Len(point_ids) < 2 \/ idx > Len(point_ids) - 1 THEN edges
  ELSE RecordNeighbors(
         TouchNeighbor(
           TouchNeighbor(edges, point_ids[idx], point_ids[idx + 1], ts, FALSE),
           point_ids[idx + 1], point_ids[idx], ts, FALSE),
         point_ids, idx + 1, ts)

(* app.broadcaster l.1176-1177: the neighbors of the route just inserted *)
BroadcasterNeighbors(edges, route) ==
  IF route.point_ids # << >> /\ route.hashes # << >>
    THEN RecordNeighbors(edges, route.point_ids, 1, route.ts)
    ELSE edges

(* the neighbor graphs the route is recorded into: the empty one and one   *)
(* that knows the link from DevA to DevE from an earlier route             *)
NeighborGraphs ==
  { EmptyMap,
    (<<DevA, DevE>> :> [count |-> 1, last_seen |-> 1, manual |-> FALSE])
      @@ (<<DevE, DevA>> :> [count |-> 1, last_seen |-> 1, manual |-> FALSE]) }

(* the pair src, dst is recorded in after on top of before for a route of  *)
(* time ts                                                                 *)
NeighborTouched(before, after, src_id, dst_id, ts) ==
  /\ <<src_id, dst_id>> \in DOMAIN after
  /\ after[<<src_id, dst_id>>].count
       > Get(before, <<src_id, dst_id>>, NewNeighbor).count
  /\ after[<<src_id, dst_id>>].last_seen >= ts
  /\ ~after[<<src_id, dst_id>>].manual

----------------------------------------------------------------------------
(* Properties of the segment deque *)

(* the message hashes of the segments, in deque order *)
HashesOf(segs) == [i \in 1..Len(segs) |-> segs[i].message_hash]

(* after is before with its first k segments dropped and new ones appended *)
DroppedFromFront(before, after, k) ==
  /\ Len(after) >= Len(before) - k
  /\ \A i \in 1..(Len(before) - k) : after[i] = before[k + i]
  /\ k > 0 => Len(after) = ROUTE_HISTORY_MAX_SEGMENTS

(* none of the first k segments of before is newer than a segment of after *)
DroppedAreOldest(before, after, k) ==
  \A i \in 1..k : \A j \in 1..Len(after) : before[i].ts <= after[j].ts

(* the lines of a journal that are inside the history window at time t *)
LinesInWindow(journal, t) ==
  SelectSeq(journal, LAMBDA line : line.ts >= t - ROUTE_HISTORY_WINDOW)

(* the deque after the journal load holds the last lines of the journal *)
(* that are inside the history window                                   *)
LoadKeepsLastLines ==
  (~started /\ started' /\ route_history_segments' # << >>) =>
    \E journal \in RaceJournals :
      HashesOf(route_history_segments')
        = SubSeq(HashesOf(LinesInWindow(journal, now)),
                 Max(Len(LinesInWindow(journal, now))
                       - ROUTE_HISTORY_MAX_SEGMENTS, 0) + 1,
                 Len(LinesInWindow(journal, now)))

ReaperPrunesHistory ==
  /\ r_pc # "history"
  /\ r_pc' \in {"history", "sleep"}
  /\ (ReaperWake \/ ReaperSend)

(* C34: after each reaper tick's time-based history prune at time now no   *)
(* segment with ts older than now minus the history window remains in the  *)
(* deque, in whatever order the segments were recorded or loaded.          *)
NoSegmentOlderThanWindow ==
  [][ReaperPrunesHistory =>
       \A i \in 1..Len(route_history_segments') :
         route_history_segments'[i].ts >= now - ROUTE_HISTORY_WINDOW]_vars

----------------------------------------------------------------------------
(* The journal saver (history.py l.342-364)                                *)

ROUTE_HISTORY_COMPACT_INTERVAL == 1

(* a round that rewrites a dirty journal whatever the time of the last     *)
(* compaction                                                              *)
RouteHistorySaverRoundAnytime(S, t, raises) ==
  IF ~S.route_history_compact THEN [S EXCEPT !.compact_result = "clean"]
  ELSE IF raises THEN [S EXCEPT !.compact_result = "failed"]
  ELSE [S EXCEPT !.history_file = S.route_history_segments,
                 !.route_history_last_compact = t,
                 !.route_history_compact = FALSE,
                 !.compact_result = "compacted"]

(* history._route_history_saver, one round of the loop after its sleep:    *)
(* raises is TRUE where makedirs, the write of the tmp file or os.replace  *)
(* raises, which leaves ROUTE_HISTORY_FILE as it was.                      *)
RouteHistorySaverRound(S, t, raises) ==
  IF ~S.route_history_compact THEN [S EXCEPT !.compact_result = "clean"]
  ELSE IF t - S.route_history_last_compact < ROUTE_HISTORY_COMPACT_INTERVAL
    THEN [S EXCEPT !.compact_result = "early"]
  ELSE IF raises THEN [S EXCEPT !.compact_result = "failed"]
  ELSE [S EXCEPT !.history_file = S.route_history_segments,
                 !.route_history_last_compact = t,
                 !.route_history_compact = FALSE,
                 !.compact_result = "compacted"]

(* _route_history_saver(): the sleep ends and one round runs; the task     *)
(* does not await between its test of the flag and its last assignment     *)
RouteHistorySaver ==
  /\ started
  /\ \E raises \in BOOLEAN : Commit(RouteHistorySaverRound(Cur, now, raises))
  /\ UNCHANGED <<started, now>>

NextJournal ==
  \/ NextRace
  \/ RouteHistorySaver

JournalSpec == Init /\ [][NextJournal]_vars

(* the step rewrites the journal: it is more than an append of lines, or   *)
(* the time of the last compaction moves                                   *)
JournalRewritten ==
  \/ ~IsPrefix(history_file, history_file')
  \/ route_history_last_compact' # route_history_last_compact

(* the step drops a segment from the deque, or the startup loads fewer     *)
(* segments than the journal has lines                                     *)
SegmentDropped ==
  \/ ~IsPrefix(route_history_segments, route_history_segments')
  \/ ~started /\ started' /\ Len(route_history_segments') < Len(history_file')

(* C35: the journal is rewritten only while the compact flag is set and    *)
(* the compact interval has passed since the last compaction; a            *)
(* successful compaction leaves the journal equal to the deque, in deque   *)
(* order, and the flag clear; a failed one leaves the journal as it was    *)
(* and the flag set; every step that drops a segment leaves the flag set.  *)
JournalCompactedWhenDirty ==
  [][ /\ JournalRewritten =>
           /\ route_history_compact
           /\ now - route_history_last_compact >= ROUTE_HISTORY_COMPACT_INTERVAL
      /\ (compact_result' = "compacted" /\ RouteHistorySaver) =>
           /\ history_file' = route_history_segments'
           /\ route_history_segments' = route_history_segments
           /\ ~route_history_compact'
      /\ (compact_result' = "failed" /\ RouteHistorySaver) =>
           /\ history_file' = history_file
           /\ route_history_compact /\ route_history_compact'
      /\ SegmentDropped => route_history_compact' ]_vars

(* the journal was compacted a second time, after a recording had pruned   *)
(* the deque again, and holds the three segments of the deque              *)
JournalCompactedTwice ==
  /\ compact_result = "compacted"
  /\ route_history_last_compact > 1
  /\ ~route_history_compact
  /\ Len(history_file) = ROUTE_HISTORY_MAX_SEGMENTS
  /\ history_file = route_history_segments
  /\ \E i \in 1..Len(history_file) : history_file[i].message_hash = "h1"

----------------------------------------------------------------------------
(* Inputs of the load scenarios: state files an earlier run left, with     *)
(* DevC saved at the zero sentinel and DevE saved outside the radius, each *)
(* with a trail inside the radius, a name and an explicit role; and        *)
(* role-overrides files, one of which lists DevC and DevE                  *)

MaxLoad == 1

SavedDropped ==
  [exists |-> TRUE,
   devices |-> (DevA :> SavedDevice(300, 0, 1)) @@ (DevC :> SavedDevice(0, 0, 1))
               @@ (DevE :> SavedDevice(600, 0, 1)),
   trails |-> (DevA :> << <<300, 0, 1>> >>) @@ (DevC :> << <<0, 300, 1>> >>)
              @@ (DevE :> << <<300, 0, 1>> >>),
   seen_devices |-> (DevA :> 1) @@ (DevC :> 1) @@ (DevE :> 1),
   device_names |-> (DevA :> "alpha") @@ (DevC :> "charlie") @@ (DevE :> "echo"),
   device_roles |-> (DevC :> "room") @@ (DevE :> "repeater"),
   device_role_sources |-> (DevC :> "explicit") @@ (DevE :> "explicit")]

LoadFiles == {SavedRoles, SavedDropped}

DroppedOverrides == (DevC :> "repeater") @@ (DevE :> "room")

OverrideFiles == {EmptyMap, RoleOverrides, DroppedOverrides}

LoadInit == \E f \in LoadFiles : InitState(OnDisk(f, TRUE))

NextLoad ==
  \/ \E ov \in OverrideFiles : Startup(state_file.content, ov, << >>)
  \/ Tick
  \/ \E m \in PersistMsgs : received_total < MaxLoad /\ OnMessage(m)
  \/ BroadcasterGet
  \/ BroadcasterSend
  \/ ReaperWake
  \/ ReaperSend
  \/ SaverSave
  \/ SaverRename
  \/ SaverClear
  \/ \E ws \in Clients1 : WsConnect(ws)
  \/ \E ws \in Clients1 : WsDisconnect(ws)

LoadSpec == LoadInit /\ [][NextLoad]_vars

(* C36: after a state load no device dropped for zero or out-of-radius     *)
(* coordinates has an entry in the device map, the trail map, the name map *)
(* or the role map, whatever the role-overrides file lists.                *)
DroppedDevicesPurged ==
  [][ (~started /\ started') =>
        \A d \in DroppedAtLoad(state_file.content.devices) :
          /\ d \notin DOMAIN devices'
          /\ d \notin DOMAIN trails'
          /\ d \notin DOMAIN device_names'
          /\ d \notin DOMAIN device_roles' ]_vars

(* the load dropped DevC and DevE, which the overrides file lists: their   *)
(* role source is the override and they have no role                       *)
DroppedOverriddenLoaded ==
  /\ started
  /\ received_total = 0
  /\ {DevC, DevE} \subseteq DOMAIN device_role_sources
  /\ device_role_sources[DevC] = "override"
  /\ device_role_sources[DevE] = "override"
  /\ DOMAIN devices = {DevA}
  /\ DOMAIN device_roles = {}

(* C37: in strict mode a JSON payload with direct coordinates is accepted  *)
(* only if its topic matches the configured regex and its JSON holds a     *)
(* location-hint key; with one of the two missing the parse result of the  *)
(* ingested message is direct_blocked.                                     *)
StrictNeedsTopicAndHint ==
  [][ \A m \in DeviceMsgs :
        ( /\ received_total' # received_total
          /\ DIRECT_COORDS_MODE = "strict"
          /\ m.json /\ m.obj_has_latlon
          /\ ~(m.topic_matches /\ m.has_hint)
          /\ OnMessage(m) ) =>
          TryParsePayload(m, now).result = "direct_blocked" ]_vars

----------------------------------------------------------------------------
(* The state saver beside the broker thread.  state_saver does not await   *)
(* between its test of the dirty flag and the clearing of the flag         *)
(* (persistence.py l.209-217), so no other task of the event loop runs in  *)
(* between; on_message runs on the thread of the broker client             *)
(* (mqtt.py l.70) and is not held back.                                    *)

SaverIdle == s_pc = "sleep"

NextThreaded ==
  \/ Startup(SavedRoles, RoleOverrides, << >>)
  \/ Tick
  \/ \E m \in PersistMsgs : received_total < MaxPersist /\ OnMessage(m)
  \/ SaverIdle /\ BroadcasterGet
  \/ SaverIdle /\ BroadcasterSend
  \/ SaverIdle /\ ReaperWake
  \/ SaverIdle /\ ReaperSend
  \/ SaverSave
  \/ SaverRename
  \/ SaverClear
  \/ \E ws \in Clients1 : SaverIdle /\ WsConnect(ws)
  \/ \E ws \in Clients1 : SaverIdle /\ WsDisconnect(ws)

ThreadedSpec == PersistInit /\ [][NextThreaded]_vars

(* C38: when the saver clears the dirty flag, the state file holds the     *)
(* devices, trails, names and roles as they are at that moment: no change  *)
(* made while the saver was between serializing and clearing is lost.      *)
DirtyChangeNotLost ==
  [][ (state_dirty /\ ~state_dirty') =>
        /\ state_file'.content.devices = devices'
        /\ state_file'.content.trails = trails'
        /\ state_file'.content.device_names = device_names'
        /\ state_file'.content.device_roles = device_roles' ]_vars

(* C39: in every reachable state, the state right after the state load     *)
(* included, every key of the trail map is the id of a device in the       *)
(* device map, so that no snapshot carries a trail of an unknown device.   *)
TrailsHaveDevices ==
  \A d \in DOMAIN trails : d \in DOMAIN devices

(* the state file with a trail for DevB and one for DevC, saved at the     *)
(* zero sentinel, was loaded, and the broadcaster has stored DevA: DevA    *)
(* and DevB are the devices and the owners of the trails                   *)
TrailOfLoadedDevice ==
  /\ started
  /\ received_total > 0
  /\ DOMAIN devices = {DevA, DevB}
  /\ DOMAIN trails = {DevA, DevB}

----------------------------------------------------------------------------
(* The original module app.py beside the refactored services               *)

(* app.mqtt_on_message l.786-788: the zero filter on the parsed position,  *)
(* by _coords_are_zero                                                     *)
AppZeroFilter(debug) ==
  IF debug.has_parsed /\ CoordsAreZero(debug.parsed.lat, debug.parsed.lon)
    THEN [debug EXCEPT !.result = "filtered_zero_coords", !.has_parsed = FALSE]
    ELSE debug

(* app.mqtt_on_message, at time t: the lines of services.mqtt.on_message   *)
(* but for the zero filter                                                 *)
AppMqttOnMessage(S, m, t) ==
  LET debug_raw == TryParsePayload(m, t)
  IN IngestOrigin(IngestOnline([S EXCEPT !.received_total = S.received_total + 1], m, t),
                  m, IngestRadiusFilter(AppZeroFilter(debug_raw)),
                  IF debug_raw.has_parsed THEN debug_raw.parsed.device_id ELSE NoId, t)

(* C40: services.mqtt.on_message and app.mqtt_on_message, given the same   *)
(* broker message in the same state at the same time, leave the same       *)
(* state behind: the same events in the queue and the same devices,        *)
(* trails, routes and history.                                             *)
RefactoredEquivalent ==
  [][ \A m \in DeviceMsgs :
        (received_total' # received_total /\ OnMessage(m)) =>
          IngestMessage(Cur, m, now) = AppMqttOnMessage(Cur, m, now) ]_vars

=============================================================================
